---- MODULE Spec2Model ----
(***************************************************************************)
(* A model of the attach / navigate / observe automaton of html-fuzzer.    *)
(*                                                                         *)
(* Three specifications share the variables below:                         *)
(*   SpecSession : BrowserLauncher.launch_and_attach (with the driver      *)
(*                 resolution chain of CometBrowserLauncher), driven by    *)
(*                 one of its callers: the launcher's context manager,     *)
(*                 BasePipeline.run, or BaseBrowser (launch / run_pipeline *)
(*                 / quit);                                                *)
(*   SpecNav     : CometNavigator.navigate_to_url against a browser whose  *)
(*                 reaction to each navigation command is chosen by the    *)
(*                 environment;                                            *)
(*   SpecStream  : CometNavigator.wait_for_response_streaming against a    *)
(*                 response element whose text and streaming indicator     *)
(*                 are chosen by the environment.                          *)
(***************************************************************************)
EXTENDS Integers, Sequences, FiniteSets, TLC

VARIABLES
    \* ---- configuration and environment of a session
    mode,            \* which caller drives the launcher
    keep_open,       \* PipelineConfig.keep_open
    exe_exists,      \* config.executable_path.exists()
    selenium,        \* SELENIUM_AVAILABLE
    browser_major,   \* major version the running browser reports
    psutil_available,\* import psutil succeeds
    competing,       \* browser processes already running before the launch
    profile,         \* the user-data directory on disk
    running,         \* those of the competing processes that are still running
    killed_count,    \* what kill_existing_processes returned
    \* ---- BrowserLauncher
    lpc,             \* position inside launch_and_attach
    procs,           \* every process this launcher started, in order, with
                     \* whether kill() / terminate() was called on it
    process,         \* self.process: 0 (None) or an index into procs
    l_driver,        \* self.driver of the launcher
    driver_path,     \* driver_path inside _get_chromedriver_path
    tried,           \* the resolution strategies attempted, with their results
    exc,             \* the exception launch_and_attach raised, if any
    session,         \* the WebDriver session: none / open / closed
    quit_calls,      \* number of times the WebDriver's quit() was invoked
    trace,           \* the launch events of this launcher, in order
    \* ---- BasePipeline
    ppc,             \* position inside BasePipeline.run
    p_driver,        \* self.driver of the pipeline
    stages,          \* the stages run() executed, in order
    steps_completed, \* self._steps_completed
    result,          \* the PipelineResult returned by run()
    \* ---- BaseBrowser
    bpc,             \* position inside BaseBrowser.run_pipeline
    b_driver,        \* self._driver
    b_is_launched,   \* self._is_launched
    b_calls,         \* number of quit() calls made on the owner so far
    ended,           \* the session lifecycle has ended
    \* ---- CometNavigator.navigate_to_url
    nav_impl,        \* which of the two CometNavigator classes is in use
    npc,             \* position inside navigate_to_url
    url,             \* the target
    initial_url,     \* initial_url
    current_url,     \* current_url (the local variable)
    browser_url,     \* the URI of the active tab, as the browser has it
    observed,        \* the last value get_current_url() returned
    redundant,       \* the steps issued although the check would have passed
    noops,           \* the steps that did not bring the session to a new page
    handles,         \* number of window handles
    attempted,       \* the escalation steps attempted so far
    nav_result,      \* the NavigationResult returned
    get_raised,      \* driver.get(url) raised
    \* ---- CometNavigator.wait_for_response_streaming
    spc,             \* position inside wait_for_response_streaming
    timeout,         \* the timeout, in quarter seconds
    now,             \* time since start_time, in quarter seconds
    text_len,        \* length of the response element's text, as rendered
    indicator,       \* a streaming indicator is displayed
    previous_length, \* previous_length
    stable_count,    \* stable_count
    samples,         \* the lengths sampled so far
    last_change,     \* the time at which the text last changed
    last_report,     \* what _is_actively_streaming reported at the last sample
    last_reset,      \* number of the sample at which an indicator last reset
                     \* stable_count (0: never)
    ever_indicator,  \* an indicator was displayed at some time
    ever_error,      \* a text read raised at some time
    s_result,        \* the value returned
    response_text,   \* what the caller read from the element afterwards
    \* ---- BrowserLauncher.wait_for_devtools
    wpc,             \* position inside wait_for_devtools
    w_timeout,       \* config.timeout, in quarter seconds
    w_now,           \* time since the call, in quarter seconds
    w_seen,          \* the kinds of poll outcome met so far
    w_polls,         \* number of polls made
    w_exc,           \* the exception raised to the caller
    \* ---- CometConversion.capture_response
    cpc,             \* position inside capture_response
    wait_for_completion, \* the argument wait_for_completion
    max_wait,        \* the argument max_wait, in seconds
    c_elapsed,       \* time.time() - start_time, in seconds
    stale,           \* the element held in response_element has gone stale
    page_text,       \* the stripped text the page shows (0 is the empty text)
    previous_text,   \* previous_text
    c_stable_count,  \* stable_count
    max_wait_reached, \* "Max wait reached" was printed
    c_recent,        \* the texts of the last four samples, oldest first
    captured,        \* the final read and the value returned
    \* ---- BrowserLauncher.kill_existing_processes, the loop
    kpc,             \* position inside kill_existing_processes
    k_procs,         \* what psutil.process_iter yields, in order
    k_next,          \* index of the next process of the iteration
    k_killed,        \* indices of the processes whose kill() went through
    k_count,         \* killed_count, and then the value returned
    \* ---- BrowserLauncher.launch_browser, the argument list
    apc,             \* the next launch: standard form, alternate form, none
    a_config,        \* the BrowserConfig
    popen_args,      \* the argument lists given to subprocess.Popen, in order
    \* ---- BaseConversion.execute
    epc,             \* position inside execute
    e_args,          \* the arguments capture, save_html, save_text
    e_calls,         \* the methods execute has called, in order
    e_seen,          \* what each of them did
    e_result,        \* the ConversionResult returned
    \* ---- CometNavigator._find_latest_response_element
    fpc,             \* position inside _find_latest_response_element
    f_page,          \* the candidate elements of the page, in document order
    f_next,          \* index of the next selector to try
    f_raised,        \* the selectors whose lookup raised
    f_result,        \* the element returned (0: None)
    \* ---- BaseBrowser, used through its public methods
    g_is_launched,   \* _is_launched
    g_launcher,      \* _launcher is set
    g_driver,        \* _driver is set
    g_navigator,     \* _navigator is set
    g_last,          \* how the last launch() or quit() of a driver ended
    g_call,          \* the last guarded method called and what it did
    g_made,          \* launch() calls, launchers created, launch_and_attach calls
    \* ---- CometNavigator.have_conversation
    hpc,             \* position inside have_conversation
    h_messages,      \* messages
    h_read_responses, \* read_responses
    h_wait,          \* wait_between_messages
    h_i,             \* number of the message being processed, from 1
    conversation,    \* conversation
    h_log,           \* per message started: was it sent, what was read
    h_raised,        \* the outer handler was reached
    \* ---- CometConversion.send_query
    qpc,             \* position inside send_query
    q_submit,        \* submit
    q_events,        \* what was done to the input element, in order
    q_result,        \* the value returned
    \* ---- CometNavigator.read_assistant_response
    rpc,             \* position inside read_assistant_response
    r_element,       \* response_element, as a position in the document (0: None)
    r_returned       \* the element whose text was returned (0: None returned)

sessionVars == <<mode, keep_open, exe_exists, selenium, browser_major,
                 psutil_available, competing, profile, running, killed_count,
                 lpc, procs, process, l_driver, driver_path, tried, exc, session,
                 quit_calls, trace, ppc, p_driver, stages, steps_completed, result,
                 bpc, b_driver, b_is_launched, b_calls, ended>>

navVars == <<nav_impl, npc, url, initial_url, current_url, browser_url, observed,
             redundant, noops,
             handles, attempted, nav_result, get_raised>>

streamVars == <<spc, timeout, now, text_len, indicator, previous_length,
                stable_count, samples, last_change, last_report, last_reset,
                ever_indicator, ever_error, s_result, response_text>>

pollVars == <<wpc, w_timeout, w_now, w_seen, w_polls, w_exc>>

captureVars == <<cpc, wait_for_completion, max_wait, c_elapsed, stale, page_text,
                 previous_text, c_stable_count, max_wait_reached, c_recent,
                 captured>>

killVars == <<kpc, k_procs, k_next, k_killed, k_count>>

\* the variables of the smaller operations
argVars == <<apc, a_config, popen_args>>

execVars == <<epc, e_args, e_calls, e_seen, e_result>>

findVars == <<fpc, f_page, f_next, f_raised, f_result>>

guardVars == <<g_is_launched, g_launcher, g_driver, g_navigator, g_last, g_call,
               g_made>>

convVars == <<hpc, h_messages, h_read_responses, h_wait, h_i, conversation,
              h_log, h_raised>>

sendVars == <<qpc, q_submit, q_events, q_result>>

readVars == <<rpc, r_element, r_returned>>

auxVars == <<killVars, argVars, execVars, findVars, guardVars, convVars,
             sendVars, readVars>>

mainVars == <<sessionVars, navVars, streamVars, pollVars, captureVars>>

allButKill == <<mainVars, argVars, execVars, findVars, guardVars, convVars,
                sendVars, readVars>>
allButArgs == <<mainVars, killVars, execVars, findVars, guardVars, convVars,
                sendVars, readVars>>
allButExec == <<mainVars, killVars, argVars, findVars, guardVars, convVars,
                sendVars, readVars>>
allButFind == <<mainVars, killVars, argVars, execVars, guardVars, convVars,
                sendVars, readVars>>
allButGuard == <<mainVars, killVars, argVars, execVars, findVars, convVars,
                 sendVars, readVars>>
allButConv == <<mainVars, killVars, argVars, execVars, findVars, guardVars,
                sendVars, readVars>>
allButSend == <<mainVars, killVars, argVars, execVars, findVars, guardVars,
                convVars, readVars>>
allButRead == <<mainVars, killVars, argVars, execVars, findVars, guardVars,
                convVars, sendVars>>
allButFindRead == <<mainVars, killVars, argVars, execVars, guardVars,
                    convVars, sendVars>>

vars == <<sessionVars, navVars, streamVars, pollVars, captureVars, auxVars>>

PollIdle ==
    /\ wpc = "idle" /\ w_timeout = 0 /\ w_now = 0 /\ w_seen = {}
    /\ w_polls = 0 /\ w_exc = "none"

KillIdle ==
    /\ kpc = "idle" /\ k_procs = <<>> /\ k_next = 1 /\ k_killed = {} /\ k_count = 0

NoConfig ==
    [executable_path |-> "", debug_port |-> "", start_maximized |-> FALSE,
     allow_file_access |-> FALSE, disable_web_security |-> FALSE,
     user_data_dir |-> "", extra_args |-> <<>>]

ArgsIdle == apc = "idle" /\ a_config = NoConfig /\ popen_args = <<>>

\* the methods execute calls
Hooks ==
    {"send_query", "capture_response", "save_response_html",
     "capture_response_html", "save_response_text"}

NoConversionResult ==
    [success |-> FALSE, query |-> "none", response |-> "none",
     html_filepath |-> FALSE,
     text_filepath |-> FALSE, error |-> "none"]

ExecIdle ==
    /\ epc = "idle"
    /\ e_args = [query |-> "none", capture |-> FALSE, save_html |-> FALSE,
                 save_text |-> FALSE]
    /\ e_calls = <<>> /\ e_seen = [h \in Hooks |-> "uncalled"]
    /\ e_result = NoConversionResult

FindIdle ==
    /\ fpc = "idle" /\ f_page = <<>> /\ f_next = 1 /\ f_raised = {} /\ f_result = 0

NoCall == [op |-> "none", after |-> "none", outcome |-> "none"]

\* BaseBrowser.__init__
GuardIdle ==
    /\ g_is_launched = FALSE /\ g_launcher = FALSE /\ g_driver = FALSE
    /\ g_navigator = FALSE /\ g_last = "new" /\ g_call = NoCall
    /\ g_made = [launch_calls |-> 0, launchers |-> 0, attaches |-> 0]

ConvIdle ==
    /\ hpc = "idle" /\ h_messages = <<>> /\ h_read_responses = FALSE
    /\ h_wait = 0 /\ h_i = 1 /\ conversation = <<>> /\ h_log = <<>>
    /\ h_raised = FALSE

SendIdle ==
    /\ qpc = "idle" /\ q_submit = FALSE /\ q_events = <<>> /\ q_result = "none"

ReadIdle == rpc = "idle" /\ r_element = 0 /\ r_returned = 0

AuxIdle ==
    /\ KillIdle /\ ArgsIdle /\ ExecIdle /\ FindIdle /\ GuardIdle /\ ConvIdle
    /\ SendIdle /\ ReadIdle

CaptureIdle ==
    /\ cpc = "idle" /\ wait_for_completion = FALSE /\ max_wait = 0
    /\ c_elapsed = 0
    /\ stale = FALSE /\ page_text = 0 /\ previous_text = 0
    /\ c_stable_count = 0 /\ max_wait_reached = FALSE /\ c_recent = <<>>
    /\ captured = [read |-> FALSE, raised |-> FALSE, some |-> FALSE, text |-> 0]

(***************************************************************************)
(* Bounds of the model.                                                    *)
(***************************************************************************)
\* quit() calls made on the owner of the session after launch
MaxQuitCalls == 2
\* browser processes running before the launch
MaxCompeting == 1

(***************************************************************************)
(* BrowserLauncher: browser_launcher/base.py, comet_launcher.py            *)
(***************************************************************************)
Modes == {"direct", "pipeline", "browser"}

\* the hard-coded pair of the version check, comet_launcher.py line 116
MismatchBrowser == 140
MismatchDriver == 141
BrowserMajors == {120, MismatchBrowser}

\* a resolved chromedriver: its major version and the installer it came from
NoPath == [major |-> 0, via |-> "none"]
DriverPathOf(m, via) == [major |-> m, via |-> via]
DriverMajors(bm) == {bm, bm + 1}

\* what one installer call can do: raise, or return a path (possibly None)
InstallOutcomes(bm, via) ==
    {[raised |-> TRUE, path |-> NoPath], [raised |-> FALSE, path |-> NoPath]}
    \cup {[raised |-> FALSE, path |-> DriverPathOf(m, via)] : m \in DriverMajors(bm)}

ProbeOutcomes == {"raise", "notok", "nomatch", "match"}

\* driver_path and "141" in driver_path and chrome_major == "140"
VersionMismatch(path, major) ==
    /\ path # NoPath
    /\ path.major = MismatchDriver
    /\ major = MismatchBrowser

\* Strategy (a): chromedriver_autoinstaller, keyed on the detected major version.
\* imp: the import succeeded; probe: the /json/version request; im: install(major);
\* ig1: install() in the handler of install(major); ig2: install() in the handler
\* of the version detection.  Every exception ends in one of the handlers.
AutoInstaller(imp, probe, bm, im, ig1, ig2) ==
    LET second == IF ig2.raised THEN NoPath ELSE ig2.path
        first == IF ig1.raised THEN second ELSE ig1.path
    IN  IF ~imp THEN NoPath
        ELSE CASE probe = "raise" -> second
               [] probe \in {"notok", "nomatch"} -> NoPath
               [] OTHER -> IF im.raised THEN first
                           ELSE IF VersionMismatch(im.path, bm) THEN NoPath
                           ELSE im.path

AutoInstallerRaised(imp, probe, im) ==
    ~imp \/ probe = "raise" \/ (probe = "match" /\ im.raised)

\* Strategy (b): _download_matching_chromedriver; its whole body is in a try.
ManifestDownload(o) == IF o.raised THEN NoPath ELSE o.path

\* Strategy (c): webdriver_manager; returns whatever install() returned.
WebdriverManager(o) == IF o.raised THEN NoPath ELSE o.path

\* a chain that goes on to the next strategy whatever the last one produced
ChainStopsNever(path) == FALSE

\* if driver_path: return driver_path   (after strategy (a) and after (b))
ChainStops(path) == path # NoPath

\* a handler that catches every exception, not only RuntimeError
CaughtByRetryAny(e) == e # "none"

\* except RuntimeError:  the only exception launch_and_attach handles
CaughtByRetry(e) == e = "RuntimeError"

\* a launch_browser that reports a missing executable as a RuntimeError
launch_browserRuntimeError(alt, popen) ==
    IF ~exe_exists
    THEN [exc |-> "RuntimeError", procs |-> procs, process |-> process]
    ELSE IF popen = "OSError"
    THEN [exc |-> "OSError", procs |-> procs, process |-> process]
    ELSE [exc |-> "none",
          procs |-> Append(procs, [form |-> IF alt THEN "alt" ELSE "std",
                                   killed |-> FALSE, terminated |-> FALSE,
                                   fresh |-> profile # "stale"]),
          process |-> Len(procs) + 1]

\* launch_browser(try_alternate_format), popen: what subprocess.Popen does
launch_browser(alt, popen) ==
    IF ~exe_exists
    THEN [exc |-> "FileNotFoundError", procs |-> procs, process |-> process]
    ELSE IF popen = "OSError"
    THEN [exc |-> "OSError", procs |-> procs, process |-> process]
    ELSE [exc |-> "none",
          procs |-> Append(procs, [form |-> IF alt THEN "alt" ELSE "std",
                                   killed |-> FALSE, terminated |-> FALSE,
                                   fresh |-> profile # "stale"]),
          process |-> Len(procs) + 1]

\* wait_for_devtools: returns the endpoint's JSON or raises RuntimeError
wait_for_devtools(reachable) == IF reachable THEN "none" ELSE "RuntimeError"

pipelineVars == <<ppc, p_driver, stages, steps_completed, result>>
browserVars == <<bpc, b_driver, b_is_launched>>
configVars == <<mode, keep_open, exe_exists, selenium, browser_major,
                psutil_available, competing>>
hostVars == <<profile, running, killed_count>>
callerVars == <<pipelineVars, browserVars, b_calls, ended>>
otherVars == <<navVars, streamVars, pollVars, captureVars, auxVars>>

\* a kill_existing_processes that goes on without psutil
kill_existing_processesAnyway(available, matching, failed) ==
    [killed_count |-> matching - failed, running |-> failed]

\* kill_existing_processes: 0 when psutil cannot be imported; otherwise every
\* matching process is killed and counted, and one whose kill() raises is
\* passed over.  matching: the matching processes; failed: those of them whose
\* kill() raised
kill_existing_processes(available, matching, failed) ==
    IF ~available
    THEN [killed_count |-> 0, running |-> matching]
    ELSE [killed_count |-> matching - failed, running |-> failed]

\* the profile directory after step 1: removed when user_data_dir is set, the
\* directory exists and shutil.rmtree succeeds; a failing rmtree is only
\* warned about
Cleaned(dir, rmtree_ok) == IF dir = "stale" /\ rmtree_ok THEN "absent" ELSE dir

\* Step 1 of launch_and_attach (kill_existing = True): killed =
\* self.kill_existing_processes()
KillExisting ==
    /\ lpc = "kill"
    /\ \E failed \in 0..running :
         LET r == kill_existing_processes(psutil_available, running, failed) IN
           /\ killed_count' = r.killed_count
           /\ running' = r.running
    /\ lpc' = "clean"
    /\ UNCHANGED <<configVars, profile, procs, process, l_driver, driver_path, tried,
                   exc, session, quit_calls, trace, callerVars, otherVars>>

\* Step 1 of launch_and_attach: clean the user data directory
CleanProfile ==
    /\ lpc = "clean"
    /\ \E rmtree_ok \in BOOLEAN : profile' = Cleaned(profile, rmtree_ok)
    /\ lpc' = "launch_std"
    /\ UNCHANGED <<configVars, running, killed_count, procs, process, l_driver,
                   driver_path, tried, exc, session, quit_calls, trace, callerVars,
                   otherVars>>

\* Step 2, the try block: launch_browser(try_alternate_format=False)
LaunchStandard ==
    /\ lpc = "launch_std"
    /\ \E popen \in {"ok", "OSError"} :
         LET r == launch_browser(FALSE, popen) IN
           /\ procs' = r.procs
           /\ process' = r.process
           /\ trace' = Append(trace, "launch_std")
           /\ IF r.exc = "none" THEN lpc' = "wait_std" /\ exc' = exc
              ELSE IF CaughtByRetry(r.exc) THEN lpc' = "retry" /\ exc' = exc
              ELSE lpc' = "raised" /\ exc' = r.exc
    /\ UNCHANGED <<configVars, hostVars, l_driver, driver_path, tried, session,
                   quit_calls, callerVars, otherVars>>

\* Step 2, the try block: devtools_info = self.wait_for_devtools()
WaitStandard ==
    /\ lpc = "wait_std"
    /\ \E reachable \in BOOLEAN :
         LET e == wait_for_devtools(reachable) IN
           /\ trace' = Append(trace, IF e = "none" THEN "wait_ok" ELSE "wait_fail")
           /\ IF e = "none" THEN lpc' = "attach" /\ exc' = exc
              ELSE IF CaughtByRetry(e) THEN lpc' = "retry" /\ exc' = exc
              ELSE lpc' = "raised" /\ exc' = e
    /\ UNCHANGED <<configVars, hostVars, procs, process, l_driver, driver_path,
                   tried, session, quit_calls, callerVars, otherVars>>

\* a handler that starts the second process without killing the first
KillProcessSkipped(ps, p) == ps

\* if self.process: self.process.kill()   (errors swallowed)
KillProcess(ps, p) ==
    IF p # 0 THEN [ps EXCEPT ![p].killed = TRUE] ELSE ps

\* The handler: kill self.process (errors swallowed), then
\* launch_browser(try_alternate_format=True)
RetryAlternate ==
    /\ lpc = "retry"
    /\ \E popen \in {"ok", "OSError"} :
         LET killed == KillProcess(procs, process)
             r == launch_browser(TRUE, popen)
         IN
           /\ procs' = IF r.exc = "none"
                       THEN Append(killed, r.procs[Len(r.procs)])
                       ELSE killed
           /\ process' = r.process
           /\ trace' = Append(trace, "launch_alt")
           /\ IF r.exc = "none" THEN lpc' = "wait_alt" /\ exc' = exc
              ELSE lpc' = "raised" /\ exc' = r.exc
    /\ UNCHANGED <<configVars, hostVars, l_driver, driver_path, tried, session,
                   quit_calls, callerVars, otherVars>>

\* The handler: devtools_info = self.wait_for_devtools(); nothing catches this one
WaitAlternate ==
    /\ lpc = "wait_alt"
    /\ \E reachable \in BOOLEAN :
         LET e == wait_for_devtools(reachable) IN
           /\ trace' = Append(trace, IF e = "none" THEN "wait_ok" ELSE "wait_fail")
           /\ IF e = "none" THEN lpc' = "attach" /\ exc' = exc
              ELSE lpc' = "raised" /\ exc' = e
    /\ UNCHANGED <<configVars, hostVars, procs, process, l_driver, driver_path,
                   tried, session, quit_calls, callerVars, otherVars>>

\* _get_chromedriver_path is done: attach_selenium returns None without a driver
\* path, and otherwise goes on to open the session
AfterResolution(path) == IF path # NoPath THEN "open_session" ELSE "return_none"

\* Step 3: attach_selenium, up to the call of _get_chromedriver_path
AttachSelenium ==
    /\ lpc = "attach"
    /\ lpc' = IF selenium THEN "strategy_a" ELSE "return_none"
    /\ UNCHANGED <<configVars, hostVars, procs, process, l_driver, driver_path,
                   tried, exc, session, quit_calls, trace, callerVars, otherVars>>

\* _get_chromedriver_path, strategy (a)
StrategyAutoInstaller ==
    /\ lpc = "strategy_a"
    /\ \E imp \in BOOLEAN, probe \in ProbeOutcomes,
          im \in InstallOutcomes(browser_major, "auto_major"),
          ig1 \in InstallOutcomes(browser_major, "auto_latest"),
          ig2 \in InstallOutcomes(browser_major, "auto_latest") :
         LET path == AutoInstaller(imp, probe, browser_major, im, ig1, ig2) IN
           /\ driver_path' = path
           /\ tried' = Append(tried, [name |-> "a", path |-> path,
                                      raised |-> AutoInstallerRaised(imp, probe, im)])
           /\ lpc' = IF ChainStops(path) THEN AfterResolution(path) ELSE "strategy_b"
    /\ UNCHANGED <<configVars, hostVars, procs, process, l_driver, exc, session,
                   quit_calls, trace, callerVars, otherVars>>

\* _get_chromedriver_path, strategy (b)
StrategyManifest ==
    /\ lpc = "strategy_b"
    /\ \E o \in InstallOutcomes(browser_major, "manifest") :
         LET path == ManifestDownload(o) IN
           /\ driver_path' = path
           /\ tried' = Append(tried, [name |-> "b", path |-> path,
                                      raised |-> o.raised])
           /\ lpc' = IF ChainStops(path) THEN AfterResolution(path) ELSE "strategy_c"
    /\ UNCHANGED <<configVars, hostVars, procs, process, l_driver, exc, session,
                   quit_calls, trace, callerVars, otherVars>>

\* _get_chromedriver_path, strategy (c), and its final return None
StrategyWebdriverManager ==
    /\ lpc = "strategy_c"
    /\ \E o \in InstallOutcomes(browser_major, "wdm") :
         LET path == WebdriverManager(o) IN
           /\ driver_path' = path
           /\ tried' = Append(tried, [name |-> "c", path |-> path,
                                      raised |-> o.raised])
           /\ lpc' = AfterResolution(path)
    /\ UNCHANGED <<configVars, hostVars, procs, process, l_driver, exc, session,
                   quit_calls, trace, callerVars, otherVars>>

\* attach_selenium: webdriver.Chrome(service, options) attaches to the debug
\* address, or raises; launch_and_attach then stores and returns the driver
OpenSession ==
    /\ lpc = "open_session"
    /\ \E ok \in BOOLEAN :
         IF ok
         THEN /\ session' = "open"
              /\ l_driver' = "driver"
              /\ lpc' = "returned"
              /\ exc' = exc
         ELSE /\ session' = session
              /\ l_driver' = l_driver
              /\ lpc' = "raised"
              /\ exc' = "WebDriverException"
    /\ UNCHANGED <<configVars, hostVars, procs, process, driver_path, tried,
                   quit_calls, trace, callerVars, otherVars>>

\* attach_selenium returned None: self.driver = None, "Selenium attach failed"
ReturnNone ==
    /\ lpc = "return_none"
    /\ l_driver' = "None"
    /\ lpc' = "returned"
    /\ UNCHANGED <<configVars, hostVars, procs, process, driver_path, tried, exc,
                   session, quit_calls, trace, callerVars, otherVars>>

\* BrowserLauncher.quit: the effect on the driver session
LauncherQuitSession == IF l_driver # "None" THEN "closed" ELSE session
\* BrowserLauncher.quit: the number of driver.quit() invocations after it
LauncherQuitCalls == IF l_driver # "None" THEN quit_calls + 1 ELSE quit_calls
\* BrowserLauncher.quit: self.process.terminate(), errors swallowed
LauncherQuitProcs ==
    IF process # 0
    THEN [procs EXCEPT ![process].terminated = TRUE]
    ELSE procs

\* BaseBrowser.quit: the effect on the driver session
BrowserQuitSession == IF b_driver # "None" THEN "closed" ELSE session
\* BaseBrowser.quit: the number of driver.quit() invocations after it
BrowserQuitCalls == IF b_driver # "None" THEN quit_calls + 1 ELSE quit_calls
\* BaseBrowser.quit: _is_launched is cleared only when driver.quit() did not raise
BrowserQuitLaunched(quit_ok) ==
    IF b_driver # "None" /\ quit_ok THEN FALSE ELSE b_is_launched

launcherVars == <<hostVars, lpc, procs, process, l_driver, driver_path, tried, exc,
                  session, quit_calls, trace>>
launchVars == <<hostVars, procs, process, l_driver, driver_path, tried, exc,
                session, quit_calls, trace>>

(***************************************************************************)
(* The launcher used directly: __enter__ / __exit__ / quit                 *)
(***************************************************************************)
\* BrowserLauncher.__enter__: return self.launch_and_attach()
Enter ==
    /\ mode = "direct" /\ lpc = "idle" /\ ~ended
    /\ lpc' = "kill"
    /\ UNCHANGED <<configVars, launchVars, callerVars, otherVars>>

\* launch_and_attach raised inside __enter__: the with statement is left with
\* the exception and __exit__ does not run
EnterRaised ==
    /\ mode = "direct" /\ lpc = "raised" /\ ~ended
    /\ ended' = TRUE
    /\ UNCHANGED <<configVars, launcherVars, pipelineVars, browserVars, b_calls,
                   otherVars>>

\* BrowserLauncher.quit()
LauncherQuit ==
    /\ procs' = LauncherQuitProcs
    /\ session' = LauncherQuitSession
    /\ quit_calls' = LauncherQuitCalls
    /\ b_calls' = b_calls + 1

\* BrowserLauncher.__exit__: self.quit()
Exit ==
    /\ mode = "direct" /\ lpc = "returned" /\ ~ended
    /\ LauncherQuit
    /\ ended' = TRUE
    /\ UNCHANGED <<configVars, hostVars, lpc, process, l_driver, driver_path, tried,
                   exc, trace, pipelineVars, browserVars, otherVars>>

\* a further quit() on the launcher, by whoever holds it
QuitAgain ==
    /\ mode \in {"direct", "pipeline"} /\ lpc = "returned" /\ ended
    /\ b_calls < MaxQuitCalls
    /\ LauncherQuit
    /\ UNCHANGED <<configVars, hostVars, lpc, process, l_driver, driver_path, tried,
                   exc, trace, pipelineVars, browserVars, ended, otherVars>>

(***************************************************************************)
(* BasePipeline: pipeline/base.py                                          *)
(***************************************************************************)
NoResult == [success |-> FALSE, message |-> "none", driver |-> "None", steps |-> <<>>]
PipelineResult(ok, msg, drv, steps) ==
    [success |-> ok, message |-> msg, driver |-> drv, steps |-> steps]

\* a run() that goes on to the next stage after a failed navigation
ShortCircuitsNotNavigate(stage, o) == o = "fail" /\ stage # "navigate"

\* if not setup_result / pre_nav_result / nav_result: return PipelineResult(False..)
ShortCircuits(stage, o) == o = "fail"

\* finally: if not self.config.keep_open: self.cleanup(), and cleanup's own
\* guard: if self._owns_browser and self.driver
CleanupRuns(drv) == ~keep_open /\ drv # "None"

\* run() returns res; the finally clause runs on the way out
PipelineReturn(res, drv) ==
    /\ result' = res
    /\ ppc' = "done"
    /\ ended' = TRUE
    /\ IF CleanupRuns(drv)
       THEN LauncherQuit
       ELSE UNCHANGED <<procs, session, quit_calls, b_calls>>

\* BasePipeline.run, up to the call of launch_and_attach inside setup_browser
PipelineRun ==
    /\ mode = "pipeline" /\ ppc = "idle"
    /\ ppc' = "setup"
    /\ lpc' = "kill"
    /\ UNCHANGED <<configVars, launchVars, p_driver, stages, steps_completed,
                   result, browserVars, b_calls, ended, otherVars>>

\* setup_browser after launch_and_attach returned or raised, and run()'s step 1
SetupBrowser ==
    /\ ppc = "setup" /\ lpc \in {"returned", "raised"}
    /\ \E factory_ok \in BOOLEAN :
         LET drv == IF lpc = "returned" THEN l_driver ELSE "None"
             o == IF lpc = "returned" /\ l_driver # "None" /\ factory_ok
                  THEN "ok" ELSE "fail"
         IN /\ p_driver' = drv
            /\ stages' = Append(stages, [name |-> "setup", outcome |-> o])
            /\ IF ShortCircuits("setup", o)
               THEN /\ PipelineReturn(PipelineResult(FALSE, "Failed to setup browser",
                                                     "None", steps_completed), drv)
                    /\ UNCHANGED steps_completed
               ELSE /\ steps_completed' = Append(steps_completed, "Browser setup")
                    /\ ppc' = "pre_nav"
                    /\ UNCHANGED <<result, ended, procs, session, quit_calls, b_calls>>
    /\ UNCHANGED <<configVars, hostVars, lpc, process, l_driver, driver_path, tried,
                   exc, trace, browserVars, otherVars>>

\* run()'s step 2: pre_navigation_steps (abstract: may succeed, fail or raise)
PreNavigation ==
    /\ ppc = "pre_nav"
    /\ \E o \in {"ok", "fail", "raise"} :
         /\ stages' = Append(stages, [name |-> "pre_nav", outcome |-> o])
         /\ IF o = "raise"
            THEN PipelineReturn(PipelineResult(FALSE, "Exception", p_driver,
                                               steps_completed), p_driver)
            ELSE IF ShortCircuits("pre_nav", o)
            THEN PipelineReturn(PipelineResult(FALSE, "Pre-navigation steps failed",
                                               p_driver, steps_completed), p_driver)
            ELSE /\ ppc' = "navigate"
                 /\ UNCHANGED <<result, ended, procs, session, quit_calls, b_calls>>
    /\ UNCHANGED <<configVars, hostVars, lpc, process, l_driver, driver_path, tried,
                   exc, trace, p_driver, steps_completed, browserVars, otherVars>>

\* run()'s step 3: navigate_to_target, which catches every exception itself
NavigateToTarget ==
    /\ ppc = "navigate"
    /\ \E o \in {"ok", "fail"} :
         /\ stages' = Append(stages, [name |-> "navigate", outcome |-> o])
         /\ IF ShortCircuits("navigate", o)
            THEN /\ PipelineReturn(PipelineResult(FALSE, "Navigation to target failed",
                                                  p_driver, steps_completed), p_driver)
                 /\ UNCHANGED steps_completed
            ELSE /\ steps_completed' = Append(steps_completed, "Navigated to target")
                 /\ ppc' = "post_nav"
                 /\ UNCHANGED <<result, ended, procs, session, quit_calls, b_calls>>
    /\ UNCHANGED <<configVars, hostVars, lpc, process, l_driver, driver_path, tried,
                   exc, trace, p_driver, browserVars, otherVars>>

\* a run() that gives up when post_navigation_steps returns False
PostNavigationFatalOnFail(o) == o = "fail"

\* if not post_nav_result: only a warning is printed, nothing is returned
PostNavigationFatal(o) == FALSE

\* if not self.config.keep_open and self._owns_browser: ... input()
\* (_owns_browser is True in every pipeline)
WaitsForEnter == ~keep_open

\* run()'s step 4, the wait for Enter, and the successful return; an exception
\* from post_navigation_steps or from input() goes to run()'s handler
PostNavigation ==
    /\ ppc = "post_nav"
    /\ \E o \in {"ok", "fail", "raise"}, entered \in BOOLEAN :
         LET waits == o # "raise" /\ ~PostNavigationFatal(o) /\ WaitsForEnter
             raised == o = "raise" \/ (waits /\ ~entered)
         IN  /\ stages' = Append(stages, [name |-> "post_nav", outcome |-> o])
             /\ trace' = IF waits
                         THEN Append(trace, IF entered THEN "input" ELSE "input_raise")
                         ELSE trace
             /\ IF raised
                THEN PipelineReturn(PipelineResult(FALSE, "Exception", p_driver,
                                                   steps_completed), p_driver)
                ELSE IF PostNavigationFatal(o)
                THEN PipelineReturn(PipelineResult(FALSE, "Post-navigation steps failed",
                                                   p_driver, steps_completed), p_driver)
                ELSE PipelineReturn(PipelineResult(TRUE, "Pipeline completed successfully",
                                                   p_driver, steps_completed), p_driver)
    /\ UNCHANGED <<configVars, hostVars, lpc, process, l_driver, driver_path, tried,
                   exc, p_driver, steps_completed, browserVars, otherVars>>

(***************************************************************************)
(* BaseBrowser: browser/base.py                                            *)
(***************************************************************************)
\* BaseBrowser.quit()
BrowserQuit ==
    /\ \E quit_ok \in BOOLEAN : b_is_launched' = BrowserQuitLaunched(quit_ok)
    /\ session' = BrowserQuitSession
    /\ quit_calls' = BrowserQuitCalls
    /\ b_calls' = b_calls + 1

\* run_pipeline step 4: if config.keep_open and result.success: ... self.quit()
FacadeQuits(res) == keep_open /\ res.success

\* run_pipeline, up to the call of launch_and_attach inside launch()
RunPipeline ==
    /\ mode = "browser" /\ bpc = "idle"
    /\ bpc' = "launching"
    /\ lpc' = "kill"
    /\ UNCHANGED <<configVars, launchVars, pipelineVars, b_driver, b_is_launched,
                   b_calls, ended, otherVars>>

\* launch() after launch_and_attach returned or raised, and run_pipeline's step 1
BrowserLaunch ==
    /\ bpc = "launching" /\ lpc \in {"returned", "raised"}
    /\ \E navigator_ok \in BOOLEAN :
         LET drv == IF lpc = "returned" THEN l_driver ELSE "None"
             launched == lpc = "returned" /\ l_driver # "None" /\ navigator_ok
         IN /\ b_driver' = drv
            /\ b_is_launched' = launched
            /\ IF launched
               THEN /\ bpc' = "pipeline"
                    /\ UNCHANGED <<result, ended>>
               ELSE /\ bpc' = "done"
                    /\ result' = PipelineResult(FALSE, "Failed to launch browser",
                                                "None", <<>>)
                    /\ ended' = TRUE
    /\ UNCHANGED <<configVars, launcherVars, ppc, p_driver, stages, steps_completed,
                   b_calls, otherVars>>

\* run_pipeline's step 2 and step 4: create_pipeline, self._pipeline.run(),
\* and the keep_open handling.  The pipeline it runs holds no launcher.
FacadePipeline ==
    /\ bpc = "pipeline"
    /\ \E o \in {"create_raises", "run_raises", "success", "failure"} :
         LET res == CASE o = "success" ->
                           PipelineResult(TRUE, "Pipeline completed successfully",
                                          b_driver, <<>>)
                      [] o = "failure" ->
                           PipelineResult(FALSE, "Failed to setup browser", "None", <<>>)
                      [] OTHER -> PipelineResult(FALSE, "Facade error", b_driver, <<>>)
         IN /\ result' = res
            /\ IF FacadeQuits(res)
               THEN BrowserQuit
               ELSE UNCHANGED <<b_is_launched, session, quit_calls, b_calls>>
    /\ bpc' = "done"
    /\ ended' = TRUE
    /\ UNCHANGED <<configVars, hostVars, lpc, procs, process, l_driver, driver_path,
                   tried, exc, trace, ppc, p_driver, stages, steps_completed,
                   b_driver, otherVars>>

\* a further quit() on the browser (or its __exit__)
BrowserQuitAgain ==
    /\ mode = "browser" /\ ended
    /\ b_calls < MaxQuitCalls
    /\ BrowserQuit
    /\ UNCHANGED <<configVars, hostVars, lpc, procs, process, l_driver, driver_path,
                   tried, exc, trace, pipelineVars, bpc, b_driver, ended, otherVars>>

(***************************************************************************)
(* Initial states                                                          *)
(***************************************************************************)
HostIdle ==
    /\ psutil_available = TRUE /\ competing = 0 /\ profile = "unset"
    /\ running = 0 /\ killed_count = 0

SessionIdle ==
    /\ lpc = "idle" /\ procs = <<>> /\ process = 0 /\ l_driver = "None"
    /\ driver_path = NoPath /\ tried = <<>> /\ exc = "none" /\ session = "none"
    /\ quit_calls = 0 /\ trace = <<>>
    /\ ppc = "idle" /\ p_driver = "None" /\ stages = <<>> /\ steps_completed = <<>>
    /\ result = NoResult
    /\ bpc = "idle" /\ b_driver = "None" /\ b_is_launched = FALSE /\ b_calls = 0
    /\ ended = FALSE

NavIdle ==
    /\ nav_impl = "browser.comet" /\ npc = "idle" /\ url = <<>>
    /\ initial_url = <<>> /\ current_url = <<>> /\ browser_url = <<>>
    /\ observed = <<>> /\ handles = 1 /\ attempted = <<>>
    /\ redundant = {} /\ noops = {}
    /\ nav_result = [success |-> FALSE, url |-> <<>>, message |-> "none"]
    /\ get_raised = FALSE

StreamIdle ==
    /\ spc = "idle" /\ timeout = 0 /\ now = 0 /\ text_len = 0 /\ indicator = FALSE
    /\ previous_length = 0 /\ stable_count = 0 /\ samples = <<>>
    /\ last_change = 0 /\ last_report = "none" /\ ever_indicator = FALSE
    /\ last_reset = 0
    /\ ever_error = FALSE /\ s_result = "none"
    /\ response_text = [read |-> FALSE, raised |-> FALSE, some |-> FALSE, len |-> 0]

InitSession ==
    /\ mode \in Modes
    /\ keep_open \in BOOLEAN
    /\ exe_exists \in BOOLEAN
    /\ selenium \in BOOLEAN
    /\ browser_major \in BrowserMajors
    /\ psutil_available \in BOOLEAN
    /\ competing \in 0..MaxCompeting
    /\ profile \in {"unset", "absent", "stale"}
    /\ running = competing
    /\ killed_count = 0
    /\ SessionIdle /\ NavIdle /\ StreamIdle /\ PollIdle /\ CaptureIdle /\ AuxIdle

NextSession ==
    \/ KillExisting \/ CleanProfile \/ LaunchStandard \/ WaitStandard \/ RetryAlternate
    \/ WaitAlternate \/ AttachSelenium \/ StrategyAutoInstaller \/ StrategyManifest
    \/ StrategyWebdriverManager \/ OpenSession \/ ReturnNone
    \/ Enter \/ EnterRaised \/ Exit \/ QuitAgain
    \/ PipelineRun \/ SetupBrowser \/ PreNavigation \/ NavigateToTarget
    \/ PostNavigation
    \/ RunPipeline \/ BrowserLaunch \/ FacadePipeline \/ BrowserQuitAgain

SpecSession == InitSession /\ [][NextSession]_vars

(***************************************************************************)
(* Claims about the session lifecycle (SpecSession)                        *)
(***************************************************************************)
Count(ev) == Cardinality({i \in DOMAIN trace : trace[i] = ev})
LaunchCount == Count("launch_std") + Count("launch_alt")

\* C1: when wait_for_devtools fails after the standard-form launch, the launch
\* is retried with the alternate form exactly once; a second failing wait is
\* surfaced to the caller as the RuntimeError; launch_browser runs at most
\* twice, and the alternate form is used only after the standard form's wait
\* has failed.
C1_RetryOnce ==
    /\ LaunchCount <= 2
    /\ Count("launch_alt") <= 1
    /\ \A i \in DOMAIN trace :
         trace[i] = "launch_alt" =>
            i = 3 /\ trace[1] = "launch_std" /\ trace[2] = "wait_fail"
    /\ (Len(trace) >= 2 /\ trace[2] = "wait_fail") =>
          \/ lpc = "retry"
          \/ (Len(trace) >= 3 /\ trace[3] = "launch_alt")
    /\ Count("wait_fail") = 2 => lpc = "raised" /\ exc = "RuntimeError"

C1_Witness ==
    /\ Count("wait_fail") = 2
    /\ Count("launch_alt") = 1
    /\ lpc = "raised"

Released(p) == p.killed \/ p.terminated

\* C7: whenever BasePipeline.run or BaseBrowser.run_pipeline has returned,
\* every process that was launched has been killed or terminated and no
\* driver session is left open.
C7_ReleasedOnEveryExit ==
    (ended /\ mode \in {"pipeline", "browser"}) =>
        /\ \A i \in DOMAIN procs : Released(procs[i])
        /\ session # "open"

StageOrder == <<"setup", "pre_nav", "navigate", "post_nav">>
StageMessage(name) ==
    CASE name = "setup" -> "Failed to setup browser"
      [] name = "pre_nav" -> "Pre-navigation steps failed"
      [] name = "navigate" -> "Navigation to target failed"
      [] OTHER -> "none"

\* C8: run() executes setup, pre-navigation, navigation, post-navigation in
\* that order, a stage runs only after every earlier stage succeeded, and when
\* setup, pre-navigation or navigation reports failure no later stage runs and
\* the result is a failure whose message names that stage.
C8_StagesShortCircuit ==
    /\ Len(stages) <= Len(StageOrder)
    /\ \A i \in DOMAIN stages : stages[i].name = StageOrder[i]
    /\ \A i, j \in DOMAIN stages : i < j => stages[i].outcome = "ok"
    /\ \A i \in DOMAIN stages :
         (stages[i].outcome = "fail" /\ stages[i].name # "post_nav") =>
            /\ i = Len(stages)
            /\ ppc = "done"
            /\ result.success = FALSE
            /\ result.message = StageMessage(stages[i].name)

C8_Witness ==
    /\ ppc = "done"
    /\ Len(stages) = 3
    /\ stages[3].outcome = "fail"
    /\ result.message = "Navigation to target failed"

\* C9: once quit() has been called on the owner of an attached session, the
\* driver's quit has been invoked exactly once, however many quit() calls
\* were made.
C9_QuitExactlyOnce ==
    (b_calls >= 1 /\ session # "none") => quit_calls = 1

StrategyOrder == <<"a", "b", "c">>
NextStrategy == <<"strategy_b", "strategy_c">>

\* C10: the strategies run in the order (a), (b), (c); one is attempted only
\* if every earlier one produced no path; a strategy that produced nothing
\* (also by raising) is followed by the next one; and the resolution ends
\* without a path only after all three produced nothing, in which case
\* attach_selenium returns None and no session is opened.
C10_StrategyChain ==
    /\ Len(tried) <= Len(StrategyOrder)
    /\ \A i \in DOMAIN tried : tried[i].name = StrategyOrder[i]
    /\ \A i, j \in DOMAIN tried : i < j => tried[i].path = NoPath
    /\ \A i \in DOMAIN tried :
         (tried[i].path = NoPath /\ i < Len(StrategyOrder)) =>
            (Len(tried) > i \/ lpc = NextStrategy[i])
    /\ (tried # <<>> /\ driver_path = NoPath
          /\ lpc \notin {"strategy_a", "strategy_b", "strategy_c"}) =>
            /\ Len(tried) = Len(StrategyOrder)
            /\ \A i \in DOMAIN tried : tried[i].path = NoPath
            /\ lpc \in {"return_none", "returned"}
            /\ l_driver = "None"
            /\ session = "none"

C10_Witness ==
    /\ lpc = "returned"
    /\ Len(tried) = 3
    /\ tried[1].raised
    /\ driver_path = NoPath
    /\ l_driver = "None"

\* the processes this launcher started that were not sent a kill
NotKilled == {i \in DOMAIN procs : ~procs[i].killed}

\* C38: the process of the standard-form launch has been sent a kill when the
\* alternate-form process exists; at most one process started by the launcher
\* has not been sent a kill; and self.process is the one started last.
C38_OneLiveProcess ==
    /\ \A i \in DOMAIN procs :
         procs[i].form = "alt" => \A j \in 1..(i - 1) : procs[j].killed
    /\ Cardinality(NotKilled) <= 1
    /\ procs # <<>> => process = Len(procs)

\* launch_and_attach raised after both forms were launched: the first process
\* was killed, the second is the launcher's process
C38_Witness ==
    /\ mode = "direct" /\ lpc = "raised" /\ Len(procs) = 2
    /\ procs[1].form = "std" /\ procs[1].killed
    /\ procs[2].form = "alt" /\ ~procs[2].killed
    /\ process = 2

(***************************************************************************)
(* CometNavigator.navigate_to_url: browser/comet/navigator.py and the      *)
(* older navigator/comet_navigator.py                                      *)
(*                                                                         *)
(* A URI is a sequence of lexical tokens (scheme, host, path, query,       *)
(* fragment); "" is the empty sequence.  The string operations of the code *)
(* (startswith, in, replace, lower) are computed on the tokens.            *)
(***************************************************************************)
\* window handles open before the navigation starts
MaxHandles == 2

NavImpls == {"browser.comet", "navigator"}

FileTarget == <<"file://", "/a.html">>
Targets ==
    { FileTarget,
      <<"https://", "h", "/p", "?q">>,
      <<"https://", "h", "/p">>,
      <<"http://", "h", "/p", "?q">> }

\* what the active tab can show after a command
Pages ==
    Targets \cup
    { <<"about:blank">>,
      <<"chrome-error://", "chromewebdata">>,
      <<"FILE://", "/a.html">>,
      <<"file://", "/old.html">>,
      <<"view-source:", "file://", "/a.html">>,
      <<"https://", "h", "/p", "?q", "#top">>,
      <<"https://", "h", "/other">> }

\* str.lower(), token by token
LowerToken(t) ==
    CASE t = "FILE://" -> "file://"
      [] t \in {"Comet", "COMET"} -> "comet"
      [] t \in {"Perplexity", "PERPLEXITY"} -> "perplexity"
      [] t = ".EXE" -> ".exe"
      [] OTHER -> t
Lower(u) == [i \in DOMAIN u |-> LowerToken(u[i])]

\* u.startswith('file://')
StartsWithFile(u) == Len(u) > 0 /\ u[1] = "file://"

\* a in b, for strings
IsIn(a, b) ==
    \E k \in 0..(Len(b) - Len(a)) : \A i \in DOMAIN a : b[k + i] = a[i]

\* url.replace('https://', '').replace('http://', '')
Normalized(u) == SelectSeq(u, LAMBDA t : t \notin {"https://", "http://"})

\* Navigator.get_current_url: driver.current_url, or "" when the driver raises
Readings(page) == {page, <<>>}

NavigationResult(ok, u, msg) == [success |-> ok, url |-> u, message |-> msg]

\* if current_url == initial_url and current_url != url:  force via location.href
HrefForced(cur, init, target) == cur = init /\ cur # target

\* if url not in current_url:  try location.replace
ReplaceTried(target, cur) == ~IsIn(target, cur)

\* "Check if navigation succeeded": the scheme of the observed URL for a file
\* target, the target without its scheme inside the observed URL otherwise
VerificationPasses(target, cur) ==
    IF StartsWithFile(target)
    THEN StartsWithFile(Lower(cur))
    ELSE IsIn(Normalized(target), cur)

\* a check that fails the navigation when the target is not in the observed URL
HttpOutcomeStrict(target, cur) ==
    IF IsIn(Normalized(target), cur)
    THEN NavigationResult(TRUE, cur, "Navigation successful")
    ELSE NavigationResult(FALSE, cur, "Navigation failed")

\* the check at the end of navigate_to_url, for an http(s) target
HttpOutcome(target, cur) ==
    IF IsIn(Normalized(target), cur)
    THEN NavigationResult(TRUE, cur, "Navigation successful")
    ELSE NavigationResult(TRUE, cur, "Navigation completed (possible redirect)")

\* a driver.get() whose exception ends the navigation
GetFailedWhenRaised(raised) == raised

\* except Exception as e: print("[WARN] driver.get() failed") and go on
GetFailed(raised) == FALSE

sessionAll == <<configVars, launcherVars, callerVars, pollVars, captureVars,
               auxVars>>

\* Attempt 1: driver.get(url) (an exception is only warned about), the wait,
\* and the read of the current URL
DriverGet ==
    /\ npc = "get"
    /\ \E page \in Pages \cup {browser_url}, raised \in BOOLEAN :
         \E r \in Readings(page) :
           /\ get_raised' = raised
           /\ browser_url' = page
           /\ current_url' = r
           /\ observed' = r
           /\ noops' = IF page = browser_url THEN {"driver.get"} ELSE {}
           /\ IF GetFailed(raised)
              THEN /\ nav_result' = NavigationResult(FALSE, url, "Navigation failed")
                   /\ npc' = "done"
              ELSE /\ npc' = IF nav_impl = "browser.comet" THEN "href" ELSE "verify"
                   /\ UNCHANGED nav_result
    /\ attempted' = Append(attempted, "driver.get")
    /\ UNCHANGED redundant
    /\ UNCHANGED <<nav_impl, url, initial_url, handles, sessionAll, streamVars>>

\* "Verify URL actually changed": window.location.href = url, when it did not
ForceHref ==
    /\ npc = "href"
    /\ IF HrefForced(current_url, initial_url, url)
       THEN /\ attempted' = Append(attempted, "location.href")
            /\ redundant' = IF VerificationPasses(url, current_url)
                            THEN redundant \cup {"location.href"}
                            ELSE redundant
            /\ \E raised \in BOOLEAN :
                 IF raised
                 THEN /\ noops' = noops \cup {"location.href"}
                      /\ UNCHANGED <<browser_url, current_url, observed>>
                 ELSE \E page \in Pages \cup {browser_url} : \E r \in Readings(page) :
                        /\ browser_url' = page
                        /\ current_url' = r
                        /\ observed' = r
                        /\ noops' = IF page = browser_url
                                    THEN noops \cup {"location.href"}
                                    ELSE noops
       ELSE UNCHANGED <<attempted, browser_url, current_url, observed, redundant,
                        noops>>
    /\ npc' = "replace"
    /\ UNCHANGED <<nav_impl, get_raised, url, initial_url, handles, nav_result, sessionAll,
                   streamVars>>

\* "If URL still doesn't match": window.location.replace(url)
LocationReplace ==
    /\ npc = "replace"
    /\ IF ReplaceTried(url, current_url)
       THEN /\ attempted' = Append(attempted, "location.replace")
            /\ redundant' = IF VerificationPasses(url, current_url)
                            THEN redundant \cup {"location.replace"}
                            ELSE redundant
            /\ \E raised \in BOOLEAN :
                 IF raised
                 THEN /\ noops' = noops \cup {"location.replace"}
                      /\ UNCHANGED <<browser_url, current_url, observed>>
                 ELSE \E page \in Pages \cup {browser_url} : \E r \in Readings(page) :
                        /\ browser_url' = page
                        /\ current_url' = r
                        /\ observed' = r
                        /\ noops' = IF page = browser_url
                                    THEN noops \cup {"location.replace"}
                                    ELSE noops
       ELSE UNCHANGED <<attempted, browser_url, current_url, observed, redundant,
                        noops>>
    /\ npc' = "verify"
    /\ UNCHANGED <<nav_impl, get_raised, url, initial_url, handles, nav_result, sessionAll,
                   streamVars>>

\* "Check if navigation succeeded"
Verify ==
    /\ npc = "verify"
    /\ IF StartsWithFile(url)
       THEN IF StartsWithFile(Lower(current_url))
            THEN /\ nav_result' = NavigationResult(TRUE, current_url,
                                                   "File URL loaded successfully")
                 /\ npc' = "done"
            ELSE /\ npc' = "window_open"
                 /\ UNCHANGED nav_result
       ELSE /\ nav_result' = HttpOutcome(url, current_url)
            /\ npc' = "done"
    /\ UNCHANGED <<nav_impl, get_raised, url, initial_url, current_url, browser_url, observed,
                   redundant, noops, handles, attempted, sessionAll, streamVars>>

\* _navigate_file_url_fallback, fallback 1: window.open in a new tab, switch to
\* the last handle when there is more than one, and check its URL
FallbackWindowOpen ==
    /\ npc = "window_open"
    /\ \E raised \in BOOLEAN, opened \in BOOLEAN, seen \in {0, 1},
          switch_ok \in BOOLEAN, page \in Pages, r_empty \in BOOLEAN :
         LET count == IF opened THEN handles + 1 ELSE handles
             \* get_window_handles returns [] when the driver raises
             len == IF seen = 0 THEN 0 ELSE count
             switched == ~raised /\ len > 1 /\ switch_ok
             \* the page of the last handle
             tab == page
             r == IF r_empty THEN <<>> ELSE tab
         IN /\ attempted' = attempted \o <<"window.open">>
                               \o (IF ~raised /\ len > 1 THEN <<"tab_switch">> ELSE <<>>)
            /\ handles' = IF raised THEN handles ELSE count
            /\ browser_url' = IF switched THEN tab ELSE browser_url
            /\ observed' = IF switched THEN r ELSE observed
            /\ noops' = IF switched /\ opened /\ r = url
                        THEN noops
                        ELSE noops \cup {"window.open"}
            /\ IF switched /\ StartsWithFile(Lower(r))
               THEN /\ nav_result' = NavigationResult(TRUE, url,
                                                      "File loaded via window.open")
                    /\ npc' = "done"
               ELSE /\ npc' = "cdp"
                    /\ UNCHANGED nav_result
    /\ UNCHANGED <<nav_impl, get_raised, url, initial_url, current_url, redundant, sessionAll,
                   streamVars>>

\* _navigate_file_url_fallback, fallback 2: Page.enable, Page.navigate, and
\* the final failure
FallbackCdp ==
    /\ npc = "cdp"
    /\ \E raised \in BOOLEAN, page \in Pages \cup {browser_url}, r_empty \in BOOLEAN :
         LET r == IF r_empty THEN <<>> ELSE page
         IN /\ attempted' = Append(attempted, "cdp")
            /\ browser_url' = IF raised THEN browser_url ELSE page
            /\ observed' = IF raised THEN observed ELSE r
            /\ noops' = IF raised \/ page = browser_url
                        THEN noops \cup {"cdp"}
                        ELSE noops
            /\ IF ~raised /\ StartsWithFile(Lower(r))
               THEN nav_result' = NavigationResult(TRUE, url, "File loaded via CDP")
               ELSE nav_result' = NavigationResult(FALSE, url,
                                                   "All navigation fallbacks failed")
    /\ npc' = "done"
    /\ UNCHANGED <<nav_impl, get_raised, url, initial_url, current_url, redundant, handles,
                   sessionAll, streamVars>>

\* the call navigate_to_url(url), up to and including initial_url = get_current_url()
InitNav ==
    /\ nav_impl \in NavImpls
    /\ url \in Targets
    /\ browser_url \in Pages
    /\ initial_url \in Readings(browser_url)
    /\ observed = initial_url
    /\ redundant = {} /\ noops = {}
    /\ current_url = <<>>
    /\ handles \in 1..MaxHandles
    /\ attempted = <<>>
    /\ npc = "get"
    /\ nav_result = NavigationResult(FALSE, <<>>, "none")
    /\ get_raised = FALSE
    /\ mode = "direct" /\ keep_open = FALSE /\ exe_exists = TRUE /\ selenium = TRUE
    /\ browser_major = MismatchBrowser /\ HostIdle
    /\ SessionIdle /\ StreamIdle /\ PollIdle /\ CaptureIdle /\ AuxIdle

NextNav ==
    \/ DriverGet \/ ForceHref \/ LocationReplace \/ Verify
    \/ FallbackWindowOpen \/ FallbackCdp

SpecNav == InitNav /\ [][NextNav]_vars

(***************************************************************************)
(* Claims about navigate_to_url                                            *)
(***************************************************************************)
Steps(log) == {log[i] : i \in DOMAIN log}

EscalationSteps == {"location.href", "location.replace", "window.open",
                    "tab_switch", "cdp"}

\* C2: for a target with scheme file://, a navigation that has returned either
\* succeeded with the session's observed URI on scheme file://, or failed
\* only after the direct navigation and all four escalation steps
\* (location.href, location.replace, window.open with a tab switch, and the
\* DevTools Page.navigate) had been attempted.
C2_FileEscalation ==
    (nav_impl = "browser.comet" /\ npc = "done" /\ StartsWithFile(url)) =>
        IF nav_result.success
        THEN StartsWithFile(Lower(observed))
        ELSE EscalationSteps \subseteq Steps(attempted)

\* C3: when the target is an http(s) URI with a query string and the URI the
\* session observes afterwards is the target without its query string, the
\* navigation reports failure for dropped query parameters.
HasQuery(u) == \E i \in DOMAIN u : u[i] = "?q"
WithoutQuery(u) == SelectSeq(u, LAMBDA t : t # "?q")
C3_QueryDropped ==
    (npc = "done" /\ ~StartsWithFile(url) /\ HasQuery(url)
       /\ current_url = WithoutQuery(url)) =>
        (~nav_result.success /\ nav_result.message = "query parameters dropped")

(***************************************************************************)
(* CometNavigator.wait_for_response_streaming and the caller's read of the *)
(* text, browser/comet/navigator.py                                        *)
(*                                                                         *)
(* Time is counted in quarter seconds from start_time.  The response       *)
(* element's text is represented by its length, which is all the loop      *)
(* looks at.                                                               *)
(***************************************************************************)
\* the longest timeout passed, in quarter seconds
MaxTimeout == 18
\* the longest text
MaxLen == 4

\* check_interval = 0.5, in quarter seconds
check_interval == 2
stability_threshold == 4

\* a loop that gives up one check interval early
WithinTimeoutShort(elapsed, t) == elapsed + check_interval < t

\* while time.time() - start_time < timeout
WithinTimeout(elapsed, t) == elapsed < t

\* a comparison that also takes an empty text for unchanged
UnchangedOrEmpty(current_length, prev) == current_length = prev

\* if current_length == previous_length and current_length > 0
Unchanged(current_length, prev) == current_length = prev /\ current_length > 0

\* a loop satisfied by the first repeated length
StabilityReachedEarly(count) == count >= 1

\* if stable_count >= stability_threshold
StabilityReached(count) == count >= stability_threshold

\* an indicator that only takes the last stable sample back
AfterIndicatorOneBack(count) == count - 1

\* stable_count = 0  # Reset counter
AfterIndicator(count) == 0

\* a detector that always reports streaming
IsActivelyStreamingAlways(displayed, raised) == TRUE

\* _is_actively_streaming: a displayed stop button or indicator; a lookup
\* that raises is skipped, and False is returned when nothing was found
IsActivelyStreaming(displayed, raised) == IF raised THEN FALSE ELSE displayed

\* the text the caller is handed: None when the read raises or the text is empty
ResponseText(len, raised) ==
    IF raised \/ len = 0
    THEN [read |-> TRUE, raised |-> raised, some |-> FALSE, len |-> 0]
    ELSE [read |-> TRUE, raised |-> FALSE, some |-> TRUE, len |-> len]

navAll == <<navVars>>

\* response_element = self._find_latest_response_element(); return False when
\* there is none
FindElement ==
    /\ spc = "find"
    /\ \E found \in BOOLEAN :
         IF found
         THEN spc' = "loop" /\ UNCHANGED s_result
         ELSE spc' = "no_element" /\ s_result' = "False"
    /\ UNCHANGED <<timeout, now, text_len, indicator, previous_length, stable_count,
                   samples, last_change, last_report, last_reset, ever_indicator,
                   ever_error,
                   response_text, sessionAll, navAll>>

\* time.sleep(check_interval): the page goes on rendering meanwhile, and the
\* text changes, if it does, in the first or the second half of the interval
Sleep ==
    \E len \in text_len..MaxLen, displayed \in BOOLEAN :
        /\ now' = now + check_interval
        /\ text_len' = len
        /\ \E at \in {now + 1, now'} :
             last_change' = IF len # text_len THEN at ELSE last_change
        /\ indicator' = displayed
        /\ ever_indicator' = (ever_indicator \/ displayed)

\* a handler that starts the count again after a failed read
AfterFailedReadReset(count) == 0

\* except Exception: print, sleep; stable_count is not touched
AfterFailedRead(count) == count

\* one pass of the while loop
Sample ==
    /\ spc = "loop"
    /\ WithinTimeout(now, timeout)
    /\ \E raised \in BOOLEAN, lookup_raised \in BOOLEAN :
         IF raised
         THEN \* except Exception: sleep and go round again
              /\ ever_error' = TRUE
              /\ stable_count' = AfterFailedRead(stable_count)
              /\ last_report' = "none"
              /\ Sleep
              /\ UNCHANGED <<spc, previous_length, samples, s_result, last_reset>>
         ELSE LET current_length == text_len IN
              /\ samples' = Append(samples, current_length)
              /\ UNCHANGED ever_error
              /\ IF Unchanged(current_length, previous_length)
                 THEN IF StabilityReached(stable_count + 1)
                      THEN IF IsActivelyStreaming(indicator, lookup_raised)
                           THEN /\ stable_count' = AfterIndicator(stable_count + 1)
                                /\ last_report' = "streaming"
                                /\ last_reset' = Len(samples')
                                /\ Sleep
                                /\ UNCHANGED <<spc, previous_length, s_result>>
                           ELSE /\ stable_count' = stable_count + 1
                                /\ last_report' = "clear"
                                /\ s_result' = "True"
                                /\ spc' = "complete"
                                /\ UNCHANGED <<previous_length, now, text_len,
                                               last_change, indicator, ever_indicator,
                                               last_reset>>
                      ELSE /\ stable_count' = stable_count + 1
                           /\ last_report' = "none"
                           /\ Sleep
                           /\ UNCHANGED <<spc, previous_length, s_result, last_reset>>
                 ELSE /\ stable_count' = 0
                      /\ previous_length' = current_length
                      /\ last_report' = "none"
                      /\ Sleep
                      /\ UNCHANGED <<spc, s_result, last_reset>>
    /\ UNCHANGED <<timeout, response_text, sessionAll, navAll>>

\* a timeout after which the caller gives up and returns None without reading
\* the element
TimeoutFatal ==
    /\ spc = "loop"
    /\ ~WithinTimeout(now, timeout)
    /\ s_result' = "False"
    /\ spc' = "timed_out"
    /\ response_text' = ResponseText(0, FALSE)
    /\ UNCHANGED <<timeout, now, text_len, indicator, previous_length, stable_count,
                   samples, last_change, last_report, last_reset, ever_indicator,
                   ever_error,
                   sessionAll, navAll>>

\* the loop condition fails: "Timeout reached", return False
Timeout ==
    /\ spc = "loop"
    /\ ~WithinTimeout(now, timeout)
    /\ s_result' = "False"
    /\ spc' = "timed_out"
    /\ UNCHANGED <<timeout, now, text_len, indicator, previous_length, stable_count,
                   samples, last_change, last_report, last_reset, ever_indicator,
                   ever_error,
                   response_text, sessionAll, navAll>>

\* read_assistant_response, after the wait: response_element.text.strip(),
\* returned when it is not empty
ReadFinalText ==
    /\ spc \in {"complete", "timed_out", "no_element"}
    /\ ~response_text.read
    /\ \E raised \in BOOLEAN :
         /\ response_text' = ResponseText(text_len, raised)
         /\ ever_error' = (ever_error \/ raised)
    /\ UNCHANGED <<spc, timeout, now, text_len, indicator, previous_length,
                   stable_count, samples, last_change, last_report, last_reset,
                   ever_indicator, s_result, sessionAll, navAll>>

\* the call wait_for_response_streaming(timeout)
InitStream ==
    /\ spc = "find"
    /\ timeout \in 0..MaxTimeout
    /\ now = 0
    /\ text_len \in 0..1
    /\ indicator \in BOOLEAN
    /\ ever_indicator = indicator
    /\ previous_length = 0 /\ stable_count = 0 /\ samples = <<>>
    /\ last_change = 0 /\ last_report = "none" /\ ever_error = FALSE
    /\ last_reset = 0
    /\ s_result = "none"
    /\ response_text = [read |-> FALSE, raised |-> FALSE, some |-> FALSE, len |-> 0]
    /\ mode = "direct" /\ keep_open = FALSE /\ exe_exists = TRUE /\ selenium = TRUE
    /\ browser_major = MismatchBrowser /\ HostIdle
    /\ SessionIdle /\ NavIdle /\ PollIdle /\ CaptureIdle /\ AuxIdle

NextStream == FindElement \/ Sample \/ Timeout \/ ReadFinalText

SpecStream == InitStream /\ [][NextStream]_vars

(***************************************************************************)
(* Claims about wait_for_response_streaming                                *)
(***************************************************************************)
Returned == spc \in {"complete", "timed_out"}

\* the last n samples are of one non-zero length
StableRun(n) ==
    /\ Len(samples) >= n
    /\ \A i \in (Len(samples) - n + 1)..Len(samples) :
         samples[i] = samples[Len(samples)] /\ samples[i] > 0

\* some n consecutive samples are of one non-zero length
HasRun(n) ==
    \E k \in n..Len(samples) :
        \A i \in (k - n + 1)..k : samples[i] = samples[k] /\ samples[k] > 0

\* C4: wait_for_response_streaming returns True only at a sample at which the
\* sampled text length has been unchanged and non-zero for at least
\* stability_threshold (4) consecutive samples and _is_actively_streaming()
\* reported no streaming indicator.
C4_CompleteOnlyWhenBoth ==
    (s_result = "True") =>
        /\ StableRun(stability_threshold)
        /\ last_report = "clear"

C4_Witness ==
    s_result = "True" /\ ever_indicator /\ Len(samples) > stability_threshold + 1

\* two seconds, in quarter seconds
StableFor == stability_threshold * check_interval

\* C5 as stated: when the text grew, stopped changing (non-empty) at least 2 s
\* before the timeout, no streaming indicator was ever displayed and no read
\* failed, the wait returns True strictly before the timeout elapses.
C5_StableTwoSeconds ==
    (Returned /\ ~ever_indicator /\ ~ever_error /\ text_len > 0
       /\ last_change >= 1 /\ last_change + StableFor < timeout) =>
        (s_result = "True" /\ now < timeout)

\* C5, amended: when no streaming indicator was ever displayed and five
\* consecutive samples (the one that records the final length and
\* stability_threshold more), all taken while the elapsed time was below the
\* timeout, read the same non-empty text, the wait returns True strictly
\* before the timeout elapses.
C5_FiveStableSamples ==
    (Returned /\ ~ever_indicator /\ HasRun(stability_threshold + 1)) =>
        (s_result = "True" /\ now < timeout)

C5_Witness ==
    /\ s_result = "True" /\ ~ever_indicator /\ last_change >= 1
    /\ HasRun(stability_threshold + 1) /\ now < timeout

\* every sample read a longer text than the one before, and the text has
\* grown again since the last sample
NeverStopsGrowing ==
    /\ samples # <<>>
    /\ \A i \in 2..Len(samples) : samples[i] > samples[i - 1]
    /\ text_len > samples[Len(samples)]

MaxWait == 7
\* number of distinct non-empty texts the page can show
MaxText == 2

\* WebDriverWait(self.driver, 5)
find_wait == 5
\* WebDriverWait(self.driver, 10)
refind_wait == 10
\* time.sleep(1)
capture_sleep == 1
\* time.sleep(2)
brief_wait == 2

Texts == 0..MaxText

allButCapture == <<sessionVars, navVars, streamVars, pollVars, auxVars>>

\* what capture_response returns: None, or the text
Captured(was_read, raised, text) ==
    [read |-> was_read, raised |-> raised, some |-> (~raised /\ text # 0),
     text |-> IF raised THEN 0 ELSE text]

\* while time.time() - start_time < max_wait
WithinMaxWait(t, limit) == t < limit

\* a loop that stops one unchanged sample earlier
StableAfterTwo(count) == count >= 2

\* if stable_count >= 3
Stable(count) == count >= 3

\* the log of sampled texts, kept to the newest four
Recent(log, text) ==
    IF Len(log) < 4 THEN Append(log, text) ELSE Append(Tail(log), text)

\* time passes: the page goes on rendering, and may replace the element
PageMoves(d) ==
    /\ c_elapsed' = c_elapsed + d
    /\ page_text' \in Texts
    /\ stale' \in {stale, TRUE}

\* the selector loop: WebDriverWait(driver, 5).until(presence_of_all_elements_
\* located); return None when no element was found
FindResponse ==
    /\ cpc = "find"
    /\ \E found \in BOOLEAN, d \in {0, find_wait} :
         /\ c_elapsed' = c_elapsed + d
         /\ IF found
            THEN /\ cpc' = IF wait_for_completion THEN "loop" ELSE "brief"
                 /\ UNCHANGED captured
            ELSE /\ cpc' = "done"
                 /\ captured' = Captured(FALSE, FALSE, 0)
    /\ UNCHANGED <<wait_for_completion, max_wait, stale, page_text, previous_text,
                   c_stable_count, max_wait_reached, c_recent, allButCapture>>

\* one pass of the while loop
CaptureSample ==
    /\ cpc = "loop"
    /\ WithinMaxWait(c_elapsed, max_wait)
    /\ \E refound \in BOOLEAN, raised \in BOOLEAN, d \in {0, refind_wait} :
         LET \* the StaleElementReferenceException branch was taken
             refind == stale
             took == IF refind THEN d ELSE 0
             current_text == IF (refind /\ ~refound) \/ raised THEN 0 ELSE page_text
             fresh == IF refind /\ refound THEN FALSE ELSE stale
         IN  /\ c_recent' = Recent(c_recent, current_text)
             /\ IF current_text = previous_text /\ current_text # 0
                THEN IF Stable(c_stable_count + 1)
                     THEN \* break
                          /\ c_stable_count' = c_stable_count + 1
                          /\ c_elapsed' = c_elapsed + took
                          /\ stale' = fresh
                          /\ cpc' = "final"
                          /\ max_wait_reached' = ~WithinMaxWait(c_elapsed', max_wait)
                          /\ UNCHANGED <<page_text, previous_text>>
                     ELSE /\ c_stable_count' = c_stable_count + 1
                          /\ c_elapsed' = c_elapsed + took + capture_sleep
                          /\ page_text' \in Texts
                          /\ stale' \in {fresh, TRUE}
                          /\ UNCHANGED <<cpc, previous_text, max_wait_reached>>
                ELSE /\ c_stable_count' = 0
                     /\ previous_text' = current_text
                     /\ c_elapsed' = c_elapsed + took + capture_sleep
                     /\ page_text' \in Texts
                     /\ stale' \in {fresh, TRUE}
                     /\ UNCHANGED <<cpc, max_wait_reached>>
    /\ UNCHANGED <<wait_for_completion, max_wait, captured, allButCapture>>

\* the loop condition fails: "Max wait reached"
MaxWaitReached ==
    /\ cpc = "loop"
    /\ ~WithinMaxWait(c_elapsed, max_wait)
    /\ cpc' = "final"
    /\ max_wait_reached' = TRUE
    /\ UNCHANGED <<wait_for_completion, max_wait, c_elapsed, stale, page_text,
                   previous_text, c_stable_count, c_recent, captured,
                   allButCapture>>

\* wait_for_completion is False: time.sleep(2)
BriefWait ==
    /\ cpc = "brief"
    /\ PageMoves(brief_wait)
    /\ cpc' = "final"
    /\ UNCHANGED <<wait_for_completion, max_wait, previous_text, c_stable_count,
                   max_wait_reached, c_recent, captured, allButCapture>>

\* response_text = response_element.text.strip(), returned when not empty; an
\* exception (the element is stale, or any other) is caught by the outer
\* handler, which returns None
CaptureFinalRead ==
    /\ cpc = "final"
    /\ \E raised \in BOOLEAN :
         captured' = Captured(TRUE, stale \/ raised, page_text)
    /\ cpc' = "done"
    /\ UNCHANGED <<wait_for_completion, max_wait, c_elapsed, stale, page_text,
                   previous_text, c_stable_count, max_wait_reached, c_recent,
                   allButCapture>>

\* the call capture_response(wait_for_completion, max_wait)
InitCapture ==
    /\ cpc = "find"
    /\ wait_for_completion \in BOOLEAN
    /\ max_wait \in 0..MaxWait
    /\ c_elapsed = 0
    /\ stale = FALSE
    /\ page_text \in Texts
    /\ previous_text = 0 /\ c_stable_count = 0 /\ max_wait_reached = FALSE
    /\ c_recent = <<>>
    /\ captured = Captured(FALSE, FALSE, 0)
    /\ mode = "direct" /\ keep_open = FALSE /\ exe_exists = TRUE /\ selenium = TRUE
    /\ browser_major = MismatchBrowser /\ HostIdle
    /\ SessionIdle /\ NavIdle /\ StreamIdle /\ PollIdle /\ AuxIdle

NextCapture ==
    FindResponse \/ CaptureSample \/ MaxWaitReached \/ BriefWait \/ CaptureFinalRead

SpecCapture == InitCapture /\ [][NextCapture]_vars

\* the call runs on: every sleep and every wait of the loop returns
SpecCaptureLive == SpecCapture /\ WF_vars(NextCapture)

\* the newest three samples each read the same non-empty text as the sample
\* before
ThreeUnchanged ==
    /\ Len(c_recent) = 4 /\ c_recent[4] # 0
    /\ \A i \in 2..4 : c_recent[i] = c_recent[i - 1]

\* the loop was left
LoopLeft == wait_for_completion /\ cpc = "final"

\* C32: the completion loop of capture_response always ends; when it has ended
\* either the newest three samples were unchanged and non-empty or max_wait
\* has elapsed since the start of the call, and the final text of the element
\* is read afterwards.
C32_LoopTerminates ==
    /\ [](LoopLeft => ThreeUnchanged \/ c_elapsed >= max_wait)
    /\ (cpc = "loop") ~> LoopLeft
    /\ LoopLeft ~> (cpc = "done" /\ captured.read)

\* the loop ended on three unchanged samples with time to spare and the text
\* was read
C32_Witness ==
    /\ cpc = "done" /\ wait_for_completion /\ captured.read /\ captured.some
    /\ ThreeUnchanged /\ c_elapsed < max_wait

\* reading the response after a wait, by read_assistant_response or by
\* capture_response
InitResponse == InitStream \/ InitCapture

NextResponse == NextStream \/ NextCapture

SpecResponse == InitResponse /\ [][NextResponse]_vars

(***************************************************************************)
(* Claims about reading the response after the wait (SpecResponse)         *)
(***************************************************************************)
\* C19: a timeout of the completion wait is not fatal.  When the wait of
\* read_assistant_response, or the loop of capture_response, ended on its
\* timeout, the element is still read, and when that read does not raise and
\* the text is not empty, that text is what is returned, not None.
C19_TimeoutNotFatal ==
    /\ (spc = "timed_out" /\ response_text.read /\ ~response_text.raised
            /\ text_len > 0)
          => (response_text.some /\ response_text.len = text_len)
    /\ (cpc = "done" /\ max_wait_reached)
          => /\ captured.read
             /\ (~captured.raised /\ page_text # 0)
                   => (captured.some /\ captured.text = page_text)

\* read_assistant_response has returned the partial text after a timeout
C19_Witness ==
    /\ spc = "timed_out" /\ s_result = "False" /\ timeout > 0
    /\ response_text.some /\ response_text.len = text_len

\* capture_response has returned the partial text after "Max wait reached",
\* without ever having seen the text stable
MaxWaitPartial ==
    /\ cpc = "done" /\ max_wait_reached /\ c_stable_count = 0
    /\ captured.some /\ captured.text = page_text

(***************************************************************************)
(* Further claims about the session lifecycle (SpecSession)                *)
(***************************************************************************)
\* C11: a driver whose major version differs from the browser's major version
\* is discarded by the strategy that produced it, and the driver that gets
\* attached always has the browser's major version.
C11_NoMismatchedDriver ==
    /\ \A i \in DOMAIN tried :
         tried[i].path # NoPath => tried[i].path.major = browser_major
    /\ (lpc = "returned" /\ l_driver = "driver") => driver_path.major = browser_major

\* C12: when the executable path does not exist, launch_browser raises
\* FileNotFoundError without starting a process or touching self.process, and
\* launch_and_attach propagates it without trying the alternate form.
C12_ExecutableNotFound ==
    ~exe_exists =>
        /\ procs = <<>>
        /\ process = 0
        /\ Count("launch_alt") = 0
        /\ Count("launch_std") >= 1 => (lpc = "raised" /\ exc = "FileNotFoundError")

C12_Witness ==
    ~exe_exists /\ Count("launch_std") = 1 /\ lpc = "raised" /\ exc = "FileNotFoundError"

\* C14: with kill_existing = True, every browser this launcher starts finds no
\* stale profile directory: a profile that existed beforehand has been removed
\* before launch_browser runs, so no stale tabs are restored.
C14_FreshProfile ==
    \A i \in DOMAIN procs : procs[i].fresh

\* C20: when psutil cannot be imported, kill_existing_processes returns 0 and
\* kills none of the running browser processes, and launch_and_attach goes on.
C20_NoPsutilNoKill ==
    (~psutil_available /\ lpc \notin {"idle", "kill"}) =>
        /\ killed_count = 0
        /\ running = competing
        /\ lpc = "raised" => exc # "ImportError"

C20_Witness ==
    ~psutil_available /\ competing >= 1 /\ lpc = "launch_std" /\ killed_count = 0

\* the installers that do not select the driver by the browser's major version
Generic == {"auto_latest", "wdm"}

\* C22: a driver that was not selected by the browser's major version is the
\* outcome of _get_chromedriver_path only after the auto-installer keyed on the
\* major version and the manifest download have both produced nothing.
C22_LatestOnlyLast ==
    (lpc \in {"open_session", "returned"} /\ driver_path # NoPath
        /\ driver_path.via \in Generic)
      => /\ \E i \in DOMAIN tried : tried[i].name = "a" /\ tried[i].path = NoPath
         /\ \E i \in DOMAIN tried : tried[i].name = "b" /\ tried[i].path = NoPath

\* setup, pre-navigation and navigation succeeded and post_navigation_steps
\* returned False
PostNavigationFailed ==
    /\ ppc = "done" /\ Len(stages) = 4
    /\ \A i \in 1..3 : stages[i].outcome = "ok"
    /\ stages[4].outcome = "fail"

\* success with the navigation among the completed steps
SucceededWithNavigation ==
    /\ result.success
    /\ \E i \in DOMAIN result.steps : result.steps[i] = "Navigated to target"

StepRank(step) ==
    CASE step = "driver.get" -> 1
      [] step = "location.href" -> 2
      [] step = "location.replace" -> 3
      [] step = "window.open" -> 4
      [] step = "tab_switch" -> 5
      [] OTHER -> 6

\* C15: the steps are attempted in the order location.href, location.replace,
\* new tab, CDP, and a step is attempted only when the verification check
\* failed on the URI observed after every earlier step: no navigation command
\* is issued once the observed URI passes the check.
C15_EscalationInOrder ==
    /\ \A i, j \in DOMAIN attempted :
         i < j => StepRank(attempted[i]) < StepRank(attempted[j])
    /\ redundant = {}

\* C17: a failure returned by navigate_to_url carries the last URI observed on
\* the session.
C17_FailureCarriesObserved ==
    (npc = "done" /\ ~nav_result.success) => nav_result.url = observed

InPageSteps == {"driver.get", "location.href", "location.replace"}

\* C16: when the tab shows some other page, driver.get (and every in-page
\* command issued after it) is a no-op and window.open does open the file in a
\* new tab, navigating to the file URL succeeds through the new-tab fallback
\* and the outcome says so.
C16_NewTabFallback ==
    (/\ nav_impl = "browser.comet" /\ npc = "done" /\ url = FileTarget
     /\ initial_url # <<>> /\ Lower(initial_url) # url
     /\ (InPageSteps \cap Steps(attempted)) \subseteq noops
     /\ "window.open" \notin noops) =>
        (nav_result.success /\ nav_result.message = "File loaded via window.open")

\* C26: for an http(s) target navigate_to_url returns success whatever URL is
\* observed; when the target (without its scheme) is not part of the observed
\* URL the message is "Navigation completed (possible redirect)".
C26_RedirectTolerated ==
    (npc = "done" /\ ~StartsWithFile(url)) =>
        /\ nav_result.success
        /\ nav_result.url = current_url
        /\ ~IsIn(Normalized(url), current_url)
             => nav_result.message = "Navigation completed (possible redirect)"

\* an http(s) navigation ended on another host and was reported as success
C26_Witness ==
    /\ npc = "done" /\ ~StartsWithFile(url)
    /\ current_url = <<"https://", "h", "/other">>
    /\ nav_result.success
    /\ nav_result.message = "Navigation completed (possible redirect)"

\* what the checks after the load call decide
DecidedByVerification ==
    IF ~StartsWithFile(url)
    THEN nav_result = HttpOutcome(url, current_url)
    ELSE IF StartsWithFile(Lower(current_url))
    THEN /\ nav_result = NavigationResult(TRUE, current_url,
                                          "File URL loaded successfully")
         /\ "window.open" \notin Steps(attempted)
    ELSE /\ "window.open" \in Steps(attempted)
         /\ nav_result.message \in {"File loaded via window.open",
                                    "File loaded via CDP",
                                    "All navigation fallbacks failed"}
         /\ nav_result.success <=>
               nav_result.message # "All navigation fallbacks failed"

\* C34: navigate_to_url always ends with a NavigationResult, and when
\* driver.get raised the result is still the one the check on the observed
\* URL (and, for a file:// target, the fallbacks) decides.
C34_GetExceptionNotFatal ==
    npc = "done" =>
        /\ nav_result.message # "none"
        /\ get_raised => DecidedByVerification

\* driver.get raised for a file target and the file was loaded by window.open
C34_Witness ==
    /\ npc = "done" /\ get_raised /\ StartsWithFile(url)
    /\ nav_result.success
    /\ nav_result.message = "File loaded via window.open"

(***************************************************************************)
(* Further claims about wait_for_response_streaming (SpecStream)           *)
(***************************************************************************)
\* C18: wait_for_response_streaming returns False only when the timeout has
\* elapsed, never while time remains.
C18_FalseOnlyOnTimeout ==
    s_result = "False" => ~(now < timeout)

\* a pass of the loop whose text read raised: time went by and no sample was
\* taken
FailedRead == spc = "loop" /\ now' # now /\ samples' = samples

\* C39: a pass whose text read raises leaves stable_count and previous_length
\* as they were and the loop goes on after the sleep.
C39_FailedReadKeepsCount ==
    [][FailedRead =>
         /\ UNCHANGED <<stable_count, previous_length>>
         /\ spc' = "loop" /\ now' = now + check_interval
         /\ s_result' = s_result]_vars

\* one stable sample short of the threshold a read can raise, and the pass
\* that follows it still starts from that count
C39_Witness ==
    /\ spc = "loop" /\ stable_count = stability_threshold - 1
    /\ previous_length > 0
    /\ ENABLED (Sample /\ FailedRead /\ stable_count' = stability_threshold - 1
                /\ WithinTimeout(now', timeout))

\* the sample taken by a step, if any, and the one before it
Sampled == samples' # samples
Newest == samples'[Len(samples')]
Before == IF samples = <<>> THEN 0 ELSE samples[Len(samples)]

\* what a sample does to stable_count
C24_Step ==
    IF Sampled
    THEN IF Newest = Before /\ Newest > 0
         THEN \/ stable_count' = stable_count + 1
              \/ /\ stable_count + 1 = stability_threshold
                 /\ last_report' = "streaming"
                 /\ stable_count' = 0
         ELSE stable_count' = 0
    ELSE stable_count' = stable_count

\* C24: stable_count goes up by one on a sample whose length equals that of
\* the sample before and is not zero (unless the count reaches the threshold
\* and the indicator check resets it), goes to 0 on every sample whose length
\* differs or is zero, is changed by nothing else, and always lies between 0
\* and stability_threshold.
C24_StableCount ==
    /\ [][C24_Step]_vars
    /\ [](stable_count \in 0..stability_threshold)

\* stable samples were counted up to the threshold after a change of length
C24_Witness ==
    /\ stable_count = stability_threshold
    /\ \E i \in DOMAIN samples : samples[i] # samples[Len(samples)]

\* an indicator check that reports streaming leaves the count at 0 and the loop
\* running
C25_Reset ==
    (Sampled /\ last_report' = "streaming") =>
        /\ (Sampled /\ Newest = Before /\ Newest > 0)
        /\ stable_count + 1 = stability_threshold
        /\ stable_count' = 0 /\ spc' = "loop" /\ s_result' = "none"

\* C25: when the count reaches the threshold and the indicator check reports
\* streaming, stable_count is reset to 0 and polling goes on; completion is
\* then declared only after at least stability_threshold further samples, all
\* unchanged and non-zero, and an indicator check that found nothing.
C25_ResetByIndicator ==
    /\ [][C25_Reset]_vars
    /\ []((spc = "complete" /\ last_reset > 0) =>
            /\ Len(samples) - last_reset >= stability_threshold
            /\ \A i \in (Len(samples) - stability_threshold + 1)..Len(samples) :
                 samples[i] = samples[Len(samples)] /\ samples[i] > 0
            /\ last_report = "clear")

\* completion was declared after an indicator had reset the count
C25_Witness ==
    spc = "complete" /\ s_result = "True" /\ last_reset > 0

(***************************************************************************)
(* BrowserLauncher.wait_for_devtools, browser_launcher/base.py             *)
(*                                                                         *)
(* Time is counted in quarter seconds from the call.                       *)
(***************************************************************************)
\* the longest config.timeout, in quarter seconds
MaxPollTimeout == 8

\* requests.get(url, timeout=0.5), in quarter seconds
request_timeout == 2
\* time.sleep(0.25), in quarter seconds
poll_sleep == 1

\* what one poll can meet: a connection error or timeout, a non-OK status, an
\* OK status whose body is not JSON, an OK status with a JSON body
PollOutcomes == {"conn_error", "not_ok", "ok_malformed", "ok_json"}

\* while time.time() < deadline
BeforeDeadline(t, deadline) == t < deadline

\* a poll whose connection error escapes the loop
PollStepStrict(outcome) ==
    CASE outcome = "ok_json" -> "return"
      [] outcome = "conn_error" -> "raise"
      [] OTHER -> "sleep"

\* the body of the loop: return r.json() on an OK response; every exception,
\* that of r.json() included, is kept in last_exc and the loop sleeps
PollStep(outcome) == IF outcome = "ok_json" THEN "return" ELSE "sleep"

allButPoll == <<sessionVars, navVars, streamVars, captureVars, auxVars>>

\* one pass of the polling loop
Poll ==
    /\ wpc = "polling"
    /\ BeforeDeadline(w_now, w_timeout)
    /\ \E outcome \in PollOutcomes, took \in 0..request_timeout :
         /\ w_seen' = w_seen \cup {outcome}
         /\ w_polls' = w_polls + 1
         /\ CASE PollStep(outcome) = "return" ->
                   /\ wpc' = "returned"
                   /\ w_now' = w_now + took
                   /\ UNCHANGED w_exc
              [] PollStep(outcome) = "raise" ->
                   /\ wpc' = "raised"
                   /\ w_now' = w_now + took
                   /\ w_exc' = "ConnectionError"
              [] OTHER ->
                   /\ w_now' = w_now + took + poll_sleep
                   /\ UNCHANGED <<wpc, w_exc>>
    /\ UNCHANGED <<w_timeout, allButPoll>>

\* the deadline has passed: raise RuntimeError("DevTools not reachable ...")
DeadlinePassed ==
    /\ wpc = "polling"
    /\ ~BeforeDeadline(w_now, w_timeout)
    /\ wpc' = "raised"
    /\ w_exc' = "RuntimeError"
    /\ UNCHANGED <<w_timeout, w_now, w_seen, w_polls, allButPoll>>

\* the call wait_for_devtools(), with deadline = time.time() + config.timeout
InitPoll ==
    /\ wpc = "polling"
    /\ w_timeout \in 0..MaxPollTimeout
    /\ w_now = 0 /\ w_seen = {} /\ w_polls = 0 /\ w_exc = "none"
    /\ mode = "direct" /\ keep_open = FALSE /\ exe_exists = TRUE /\ selenium = TRUE
    /\ browser_major = MismatchBrowser /\ HostIdle
    /\ SessionIdle /\ NavIdle /\ StreamIdle /\ CaptureIdle /\ AuxIdle

NextPoll == Poll \/ DeadlinePassed

SpecPoll == InitPoll /\ [][NextPoll]_vars /\ WF_vars(NextPoll)

\* C13: wait_for_devtools always terminates; it returns as soon as a poll
\* receives an OK well-formed response (no poll follows one), raises
\* RuntimeError only once the deadline has passed without such a response,
\* and no other exception ever escapes.
C13_PollSafe ==
    /\ w_exc \in {"none", "RuntimeError"}
    /\ "ok_json" \in w_seen => wpc = "returned"
    /\ wpc = "returned" => "ok_json" \in w_seen
    /\ wpc = "raised" =>
         (w_exc = "RuntimeError" /\ ~(w_now < w_timeout) /\ "ok_json" \notin w_seen)
C13_WaitTerminates == []C13_PollSafe /\ <>(wpc \in {"returned", "raised"})

C13_Witness ==
    /\ wpc = "raised" /\ w_exc = "RuntimeError"
    /\ {"conn_error", "not_ok", "ok_malformed"} \subseteq w_seen

(***************************************************************************)
(* BrowserLauncher.kill_existing_processes, the loop over the processes    *)
(* (browser_launcher/base.py 88-106), with psutil imported                 *)
(***************************************************************************)
\* largest number of processes enumerated
MaxProcs == 3

\* nothing of the larger operations is running
MainIdle ==
    /\ mode = "direct" /\ keep_open = FALSE /\ exe_exists = TRUE /\ selenium = TRUE
    /\ browser_major = MismatchBrowser /\ HostIdle
    /\ SessionIdle /\ NavIdle /\ StreamIdle /\ PollIdle /\ CaptureIdle

\* CometBrowserLauncher.get_process_names
process_names == << <<"comet">>, <<"comet", ".exe">>, <<"perplexity">> >>

\* proc.info of the processes of a host: name, exe and the cmdline list (None
\* reads as the empty string or list).  target tells whether the process is
\* one the browser's identifying substrings point at
Infos ==
    { [name |-> <<"Comet", ".EXE">>, exe |-> <<"C:/", "Comet", ".EXE">>,
       cmdline |-> << <<"C:/", "Comet", ".EXE">> >>, target |-> TRUE],
      [name |-> <<"chrome", ".exe">>, exe |-> <<"C:/", "chrome", ".exe">>,
       cmdline |-> << <<"chrome", ".exe">>, <<"--profile=", "PERPLEXITY">> >>,
       target |-> TRUE],
      [name |-> <<>>, exe |-> <<"C:/", "Perplexity", "/", "helper">>,
       cmdline |-> << >>, target |-> TRUE],
      [name |-> <<"python">>, exe |-> <<"C:/", "python">>,
       cmdline |-> << <<"python">>, <<"com">>, <<"et">> >>, target |-> FALSE] }

\* what goes wrong while one process is handled: nothing, an exception while
\* its info is inspected, or an exception from proc.kill()
Errors == {"none", "inspect", "kill"}

Processes == [info : Infos, error : Errors]

RECURSIVE Join(_)
\* ' '.join(cmdline)
Join(words) ==
    IF words = <<>> THEN <<>>
    ELSE IF Len(words) = 1 THEN words[1]
    ELSE words[1] \o <<" ">> \o Join(Tail(words))

\* any(pname.lower() in name or pname.lower() in exe or pname.lower() in cmd
\*     for pname in process_names)
Matches(info) ==
    LET name == Lower(info.name)
        exe == Lower(info.exe)
        cmd == Lower(Join(info.cmdline))
    IN  \E k \in DOMAIN process_names :
          LET pname == Lower(process_names[k]) IN
            IsIn(pname, name) \/ IsIn(pname, exe) \/ IsIn(pname, cmd)

\* a loop body that counts the process before killing it
KillBodyCountsFirst(proc) ==
    IF proc.error = "inspect" \/ ~Matches(proc.info)
    THEN [killed |-> FALSE, counted |-> 0]
    ELSE IF proc.error = "kill"
         THEN [killed |-> FALSE, counted |-> 1]
         ELSE [killed |-> TRUE, counted |-> 1]

\* the body of the for loop, for one process: proc.kill() and killed_count += 1
\* when the process matches; except Exception: pass
KillBody(proc) ==
    IF proc.error = "inspect" \/ ~Matches(proc.info)
    THEN [killed |-> FALSE, counted |-> 0]
    ELSE IF proc.error = "kill"
         THEN [killed |-> FALSE, counted |-> 0]
         ELSE [killed |-> TRUE, counted |-> 1]

\* one iteration of for proc in psutil.process_iter(...)
KillNext ==
    /\ kpc = "loop"
    /\ k_next \in DOMAIN k_procs
    /\ LET r == KillBody(k_procs[k_next]) IN
         /\ k_killed' = IF r.killed THEN k_killed \cup {k_next} ELSE k_killed
         /\ k_count' = k_count + r.counted
    /\ k_next' = k_next + 1
    /\ UNCHANGED <<kpc, k_procs, allButKill>>

\* return killed_count
KillReturn ==
    /\ kpc = "loop"
    /\ k_next \notin DOMAIN k_procs
    /\ kpc' = "returned"
    /\ UNCHANGED <<k_procs, k_next, k_killed, k_count, allButKill>>

\* killed_count = 0, and the processes of the host
InitKill ==
    /\ kpc = "loop"
    /\ \E n \in 0..MaxProcs : k_procs \in [1..n -> Processes]
    /\ k_next = 1 /\ k_killed = {} /\ k_count = 0
    /\ ArgsIdle /\ ExecIdle /\ FindIdle /\ GuardIdle /\ MainIdle /\ ReadIdle /\ SendIdle /\ ConvIdle

NextKill == KillNext \/ KillReturn

SpecKill == InitKill /\ [][NextKill]_vars

\* C21: kill_existing_processes kills every enumerated process that one of the
\* identifying substrings points at (whatever the case), passes over a process
\* whose inspection or kill raises and goes on with the next one, and returns
\* the number of processes it killed.
C21_KillsMatching ==
    /\ kpc \in {"loop", "returned"}
    /\ k_count = Cardinality(k_killed)
    /\ k_killed = {i \in 1..(k_next - 1) :
                     k_procs[i].info.target /\ k_procs[i].error = "none"}
    /\ kpc = "returned" => k_next = Len(k_procs) + 1

\* three processes were enumerated, the first could not be inspected, the
\* kill of the second raised, and the third was killed and counted
C21_Witness ==
    /\ kpc = "returned" /\ Len(k_procs) = 3
    /\ k_procs[1].error = "inspect" /\ k_procs[1].info.target
    /\ k_procs[2].error = "kill" /\ k_procs[2].info.target
    /\ k_killed = {3} /\ k_count = 1

(***************************************************************************)
(* The argument list of launch_browser: browser_launcher/base.py 121-138,  *)
(* CometBrowserLauncher.get_launch_args                                    *)
(***************************************************************************)
\* one token of an argument list: f"{flag}{value}"
Arg(flag, value) == [flag |-> flag, value |-> value]

\* extra_args of the configurations considered
ExtraArgs ==
    { <<>>, <<Arg("--no-first-run", "")>>,
      <<Arg("--lang=", "en"), Arg("--no-first-run", "")>>, <<Arg("--", "")>> }

\* BrowserConfig; user_data_dir "" is None
Configs ==
    [executable_path : {"comet.exe"}, debug_port : {"9222", "9333"},
     start_maximized : BOOLEAN, allow_file_access : BOOLEAN,
     disable_web_security : BOOLEAN, user_data_dir : {"", "./comet_profile_tmp"},
     extra_args : ExtraArgs]

\* CometBrowserLauncher.get_launch_args
get_launch_args(config) ==
    <<Arg(config.executable_path, ""),
      Arg("--remote-debugging-port=", config.debug_port)>>
    \o (IF config.start_maximized THEN <<Arg("--start-maximized", "")>> ELSE <<>>)
    \o (IF config.allow_file_access
        THEN <<Arg("--allow-file-access-from-files", ""),
               Arg("--allow-file-access", "")>>
        ELSE <<>>)
    \o (IF config.disable_web_security
        THEN <<Arg("--disable-web-security", "")>> ELSE <<>>)
    \o (IF config.user_data_dir # ""
        THEN <<Arg("--user-data-dir=", config.user_data_dir)>> ELSE <<>>)
    \o config.extra_args

\* an alternate form that puts the separator after the flags
AlternateFormTrailing(config, args) == args \o <<Arg("--", "")>>

\* args = [str(self.config.executable_path), "--"] + args[1:]
AlternateForm(config, args) ==
    <<Arg(config.executable_path, ""), Arg("--", "")>> \o Tail(args)

\* the list launch_browser(try_alternate_format) gives to Popen
LaunchArgs(config, try_alternate_format) ==
    LET args == get_launch_args(config) IN
      IF try_alternate_format THEN AlternateForm(config, args) ELSE args

\* launch_browser(try_alternate_format=False)
LaunchStandardForm ==
    /\ apc = "standard"
    /\ popen_args' = Append(popen_args, LaunchArgs(a_config, FALSE))
    /\ apc' = "alternate"
    /\ UNCHANGED <<a_config, allButArgs>>

\* launch_browser(try_alternate_format=True)
LaunchAlternateForm ==
    /\ apc = "alternate"
    /\ popen_args' = Append(popen_args, LaunchArgs(a_config, TRUE))
    /\ apc' = "done"
    /\ UNCHANGED <<a_config, allButArgs>>

InitArgs ==
    /\ apc = "standard"
    /\ a_config \in Configs
    /\ popen_args = <<>>
    /\ KillIdle /\ ExecIdle /\ FindIdle /\ GuardIdle /\ MainIdle /\ ReadIdle /\ SendIdle /\ ConvIdle

NextArgs == LaunchStandardForm \/ LaunchAlternateForm

SpecArgs == InitArgs /\ [][NextArgs]_vars

\* C23: for every configuration the alternate-form argument list is the
\* standard-form list with one more token, the literal "--", directly after the
\* executable path; every other token is the same and in the same order.
C23_AlternateForm ==
    Len(popen_args) = 2 =>
      LET standard == popen_args[1]
          alternate == popen_args[2]
      IN  /\ Len(alternate) = Len(standard) + 1
          /\ alternate[1] = standard[1]
          /\ standard[1] = Arg(a_config.executable_path, "")
          /\ alternate[2] = Arg("--", "")
          /\ \A i \in 2..Len(standard) : alternate[i + 1] = standard[i]

\* both forms were launched for a configuration with every flag set and two
\* extra arguments
C23_Witness ==
    /\ apc = "done" /\ Len(popen_args) = 2
    /\ a_config.start_maximized /\ a_config.allow_file_access
    /\ a_config.disable_web_security /\ a_config.user_data_dir # ""
    /\ Len(a_config.extra_args) = 2
    /\ Len(popen_args[1]) = 9 /\ Len(popen_args[2]) = 10

(***************************************************************************)
(* BaseConversion.execute, conversion/base.py 133-245                      *)
(***************************************************************************)
\* what a method called by execute can do
Queries == {"What is 2+2?", ""}

\* str(e) of the exceptions a method can raise
ExceptionTexts == {"Message: stale element reference", ""}

SendOutcomes == {"true", "false"} \cup ExceptionTexts
CaptureOutcomes == {"text", "empty", "none"} \cup ExceptionTexts
SaveOutcomes == {"true", "false"} \cup ExceptionTexts
HtmlOutcomes == {"html", "none"} \cup ExceptionTexts

\* did the method raise
Raised(outcome) == outcome \in ExceptionTexts

\* a success that does not look at the captured response
SuccessOnSend(send_success, capture, response) == send_success

\* success = send_success and (not capture or response_text is not None)
Success(send_success, capture, response) ==
    send_success /\ (~capture \/ response # "none")

\* a handler that reports every exception as a failed capture
CaughtAsCaptureFailure(query, text) ==
    [NoConversionResult EXCEPT !.query = query,
                               !.error = "Failed to capture response"]

\* except Exception as e: ConversionResult(success=False, query=query,
\* error=str(e))
Caught(query, text) ==
    [NoConversionResult EXCEPT !.query = query, !.error = text]

\* the call of one method: it is recorded, and an exception goes to the outer
\* handler
Called(hook, outcome, next) ==
    /\ e_calls' = Append(e_calls, hook)
    /\ e_seen' = [e_seen EXCEPT ![hook] = outcome]
    /\ IF Raised(outcome)
       THEN /\ epc' = "done"
            /\ e_result' = Caught(e_args.query, outcome)
       ELSE /\ epc' = next
            /\ UNCHANGED e_result

\* send_success = self.send_query(query, submit=True)
SendQuery ==
    /\ epc = "send"
    /\ \E o \in SendOutcomes :
         IF o = "false"
         THEN /\ e_calls' = Append(e_calls, "send_query")
              /\ e_seen' = [e_seen EXCEPT !["send_query"] = o]
              /\ epc' = "done"
              /\ e_result' = [NoConversionResult EXCEPT
                                !.query = e_args.query,
                                !.error = "Failed to send query"]
         ELSE Called("send_query", o, "capture")
    /\ UNCHANGED <<e_args, allButExec>>

\* if capture: response_text = self.capture_response(...)
CaptureResponse ==
    /\ epc = "capture"
    /\ IF e_args.capture
       THEN \E o \in CaptureOutcomes : Called("capture_response", o, "save_html")
       ELSE /\ epc' = "save_html"
            /\ UNCHANGED <<e_calls, e_seen, e_result>>
    /\ UNCHANGED <<e_args, allButExec>>

\* if save_html: save_response_html, and capture_response_html when it saved
SaveHtml ==
    /\ epc = "save_html"
    /\ IF e_args.save_html
       THEN \E o \in SaveOutcomes :
              Called("save_response_html", o,
                     IF o = "true" THEN "capture_html" ELSE "save_text")
       ELSE /\ epc' = "save_text"
            /\ UNCHANGED <<e_calls, e_seen, e_result>>
    /\ UNCHANGED <<e_args, allButExec>>

\* response_html = self.capture_response_html(...)
CaptureHtml ==
    /\ epc = "capture_html"
    /\ \E o \in HtmlOutcomes : Called("capture_response_html", o, "save_text")
    /\ UNCHANGED <<e_args, allButExec>>

\* if save_text: save_response_text
SaveText ==
    /\ epc = "save_text"
    /\ IF e_args.save_text
       THEN \E o \in SaveOutcomes : Called("save_response_text", o, "finish")
       ELSE /\ epc' = "finish"
            /\ UNCHANGED <<e_calls, e_seen, e_result>>
    /\ UNCHANGED <<e_args, allButExec>>

\* "Determine success" and return the ConversionResult
ExecuteReturn ==
    /\ epc = "finish"
    /\ LET response == IF e_args.capture THEN e_seen["capture_response"] ELSE "none"
           success == Success(e_seen["send_query"] = "true", e_args.capture, response)
       IN  e_result' =
             [success |-> success, query |-> e_args.query,
              response |-> response,
              html_filepath |-> (e_seen["save_response_html"] = "true"),
              text_filepath |-> (e_seen["save_response_text"] = "true"),
              error |-> IF success THEN "none" ELSE "Failed to capture response"]
    /\ epc' = "done"
    /\ UNCHANGED <<e_args, e_calls, e_seen, allButExec>>

\* the call execute(query, capture, save_html, save_text, max_wait)
InitExecute ==
    /\ epc = "send"
    /\ e_args \in [query : Queries, capture : BOOLEAN, save_html : BOOLEAN,
                   save_text : BOOLEAN]
    /\ e_calls = <<>> /\ e_seen = [h \in Hooks |-> "uncalled"]
    /\ e_result = NoConversionResult
    /\ KillIdle /\ ArgsIdle /\ FindIdle /\ GuardIdle /\ MainIdle /\ ReadIdle /\ SendIdle /\ ConvIdle

NextExecute ==
    SendQuery \/ CaptureResponse \/ SaveHtml \/ CaptureHtml \/ SaveText
    \/ ExecuteReturn

SpecExecute == InitExecute /\ [][NextExecute]_vars

\* send_query returned True, and capture_response, when asked for, returned a
\* text
SentAndCaptured ==
    /\ e_seen["send_query"] = "true"
    /\ ~e_args.capture \/ e_seen["capture_response"] \in {"text", "empty"}

\* a failed send ends execute at once
FailedSend ==
    e_seen["send_query"] = "false" =>
        /\ ~e_result.success /\ e_result.error = "Failed to send query"
        /\ e_calls = <<"send_query">>

\* C27 as stated: execute returns success = True if and only if send_query
\* succeeded and (capture is False or capture_response returned a text); after
\* a failed send_query it returns 'Failed to send query' and has called nothing
\* else.
C27_SuccessIff ==
    epc = "done" => /\ e_result.success <=> SentAndCaptured
                    /\ FailedSend

\* C27, amended: the same, where success also needs that none of the methods
\* execute called raised.
C27_SuccessIffNoRaise ==
    epc = "done" =>
        /\ e_result.success <=>
             (SentAndCaptured /\ \A h \in Hooks : ~Raised(e_seen[h]))
        /\ FailedSend

\* execute succeeded with a capture and both files asked for
C27_Witness ==
    /\ epc = "done" /\ e_result.success
    /\ e_args.capture /\ e_args.save_html /\ e_args.save_text
    /\ Len(e_calls) = 5

\* C31: execute always ends with a ConversionResult; when send_query,
\* capture_response or a save operation raised, that was the last method
\* called, and the result has success = False, the query execute was given,
\* no response and error = the text of the exception.
C31_ExceptionBecomesResult ==
    /\ epc \in {"send", "capture", "save_html", "capture_html", "save_text",
                "finish"} => \A h \in Hooks : ~Raised(e_seen[h])
    /\ \A h \in Hooks :
         Raised(e_seen[h]) =>
            /\ epc = "done" /\ e_calls[Len(e_calls)] = h
            /\ ~e_result.success /\ e_result.query = e_args.query
            /\ e_result.error = e_seen[h] /\ e_result.response = "none"
    /\ epc = "done" => e_result.query = e_args.query

\* save_response_text raised after a captured response and a saved HTML file
C31_Witness ==
    /\ epc = "done" /\ Raised(e_seen["save_response_text"])
    /\ e_seen["capture_response"] = "text"
    /\ e_seen["save_response_html"] = "true"
    /\ e_result.error = "Message: stale element reference"
    /\ ~e_result.success

(***************************************************************************)
(* CometNavigator._find_latest_response_element,                           *)
(* browser/comet/navigator.py 534-567                                      *)
(***************************************************************************)
\* largest number of candidate elements on the page
MaxElements == 3

\* the candidate selectors, in the order they are tried
selectors ==
    <<"div[class*='answer']", "div[class*='response']", ".prose",
      "[class*='markdown']", "div[class*='message']">>

\* an element of the page: the selector that matches it and is_displayed()
Elements == [selector : DOMAIN selectors, visible : BOOLEAN]

\* [el for el in elements if el.is_displayed()], as positions in the document
VisibleElements(page, k) ==
    {i \in DOMAIN page : page[i].selector = k /\ page[i].visible}

\* a choice of the first element of the list
Earliest(elements) == CHOOSE i \in elements : \A j \in elements : i <= j

\* visible_elements[-1]
Latest(elements) == CHOOSE i \in elements : \A j \in elements : j <= i

\* one pass of for selector in selectors; an exception skips the selector
TrySelector ==
    /\ fpc = "walk"
    /\ f_next \in DOMAIN selectors
    /\ \E raised \in BOOLEAN :
         LET visible_elements == VisibleElements(f_page, f_next) IN
           IF raised
           THEN /\ f_raised' = f_raised \cup {f_next}
                /\ f_next' = f_next + 1
                /\ UNCHANGED <<fpc, f_result>>
           ELSE IF visible_elements # {}
                THEN /\ f_result' = Latest(visible_elements)
                     /\ fpc' = "done"
                     /\ UNCHANGED <<f_next, f_raised>>
                ELSE /\ f_next' = f_next + 1
                     /\ UNCHANGED <<fpc, f_raised, f_result>>
    /\ UNCHANGED <<f_page, allButFind>>

\* return None after the last selector
FoundNothing ==
    /\ fpc = "walk"
    /\ f_next \notin DOMAIN selectors
    /\ fpc' = "done"
    /\ f_result' = 0
    /\ UNCHANGED <<f_page, f_next, f_raised, allButFind>>

InitFind ==
    /\ fpc = "walk"
    /\ \E n \in 0..MaxElements : f_page \in [1..n -> Elements]
    /\ f_next = 1 /\ f_raised = {} /\ f_result = 0
    /\ KillIdle /\ ArgsIdle /\ ExecIdle /\ GuardIdle /\ MainIdle /\ ReadIdle /\ SendIdle /\ ConvIdle

NextFind == TrySelector \/ FoundNothing

SpecFind == InitFind /\ [][NextFind]_vars

\* the element expected when the selectors in the set can be used: the last
\* visible element of the first of them that has one, None (0) without any
Expected(usable) ==
    LET matching == {k \in usable : VisibleElements(f_page, k) # {}} IN
      IF matching = {} THEN 0
      ELSE LET first == CHOOSE k \in matching : \A m \in matching : k <= m
               visible == VisibleElements(f_page, first)
           IN  CHOOSE i \in visible : \A j \in visible : j <= i

\* C28 as stated: the element returned is the last visible match of the first
\* selector that has a visible match, and None only if no selector has one.
C28_FirstSelectorLast ==
    fpc = "done" => f_result = Expected(DOMAIN selectors)

\* C28, amended: the same over the selectors whose lookup did not raise.
C28_FirstUsableSelectorLast ==
    fpc = "done" => f_result = Expected(DOMAIN selectors \ f_raised)

\* the third selector was the first with a visible match, it had two, and the
\* later one was returned although a later selector matched a later element
C28_Witness ==
    /\ fpc = "done" /\ f_raised = {} /\ Len(f_page) = 3
    /\ f_page[1].selector = 3 /\ f_page[2].selector = 3 /\ f_page[3].selector = 4
    /\ \A i \in 1..3 : f_page[i].visible
    /\ f_result = 2

(***************************************************************************)
(* BaseBrowser as its caller sees it: launch, quit and the guarded         *)
(* methods, browser/base.py 116-188 and 285-320                            *)
(***************************************************************************)
\* the methods that test _is_launched first
Guarded == {"navigate_to", "open_local_files", "get_window_handles",
            "switch_to_window"}

\* what launch_and_attach does for launch()
AttachOutcomes == {"driver", "None", "raise"}

\* a quit() that leaves _is_launched as it was
AfterQuitStaysLaunched(has_driver, quit_ok, launched) == launched

\* quit(): _is_launched = False after a driver.quit() that did not raise
AfterQuit(has_driver, quit_ok, launched) ==
    IF has_driver /\ quit_ok THEN FALSE ELSE launched

\* largest number of launch() calls on one browser object
MaxLaunches == 3

\* a launch() that does not look at _is_launched
NeverAlreadyLaunched(launched) == FALSE

\* if self._is_launched: return True
AlreadyLaunched(launched) == launched

\* launch(kill_existing)
GuardLaunch ==
    /\ g_made.launch_calls < MaxLaunches
    /\ IF AlreadyLaunched(g_is_launched)
       THEN /\ g_last' = "launch_true"
            /\ g_made' = [g_made EXCEPT !.launch_calls = @ + 1]
            /\ UNCHANGED <<g_is_launched, g_launcher, g_driver, g_navigator>>
       ELSE \E launcher_ok \in BOOLEAN, attach \in AttachOutcomes,
               navigator_ok \in BOOLEAN :
              IF ~g_launcher /\ ~launcher_ok
              THEN \* create_launcher raised
                   /\ g_last' = "launch_false"
                   /\ g_made' = [g_made EXCEPT !.launch_calls = @ + 1]
                   /\ UNCHANGED <<g_is_launched, g_launcher, g_driver, g_navigator>>
              ELSE /\ g_launcher' = TRUE
                   /\ g_made' = [launch_calls |-> g_made.launch_calls + 1,
                                 launchers |-> IF g_launcher THEN g_made.launchers
                                               ELSE g_made.launchers + 1,
                                 attaches |-> g_made.attaches + 1]
                   /\ CASE attach = "raise" ->
                             /\ g_last' = "launch_false"
                             /\ UNCHANGED <<g_is_launched, g_driver, g_navigator>>
                        [] attach = "None" ->
                             /\ g_driver' = FALSE
                             /\ g_last' = "launch_false"
                             /\ UNCHANGED <<g_is_launched, g_navigator>>
                        [] OTHER ->
                             /\ g_driver' = TRUE
                             /\ IF navigator_ok
                                THEN /\ g_navigator' = TRUE
                                     /\ g_is_launched' = TRUE
                                     /\ g_last' = "launch_true"
                                ELSE /\ g_last' = "launch_false"
                                     /\ UNCHANGED <<g_is_launched, g_navigator>>
    /\ UNCHANGED <<g_call, allButGuard>>

\* quit()
GuardQuit ==
    /\ \E quit_ok \in BOOLEAN :
         /\ g_is_launched' = AfterQuit(g_driver, quit_ok, g_is_launched)
         /\ g_last' = IF g_driver
                      THEN IF quit_ok THEN "quit_ok" ELSE "quit_raised"
                      ELSE g_last
    /\ UNCHANGED <<g_launcher, g_driver, g_navigator, g_call, g_made,
                   allButGuard>>

\* navigate_to, open_local_files, get_window_handles, switch_to_window
GuardedCall ==
    /\ \E op \in Guarded :
         g_call' = [op |-> op, after |-> g_last,
                    outcome |-> IF ~g_is_launched THEN "RuntimeError"
                                ELSE "navigator"]
    /\ UNCHANGED <<g_is_launched, g_launcher, g_driver, g_navigator, g_last,
                   g_made, allButGuard>>

InitBrowser ==
    /\ GuardIdle
    /\ KillIdle /\ ArgsIdle /\ ExecIdle /\ FindIdle /\ MainIdle /\ ReadIdle /\ SendIdle /\ ConvIdle

NextBrowser == GuardLaunch \/ GuardQuit \/ GuardedCall

SpecBrowser == InitBrowser /\ [][NextBrowser]_vars

\* C30: a guarded method called before any launch(), after a launch() that
\* returned False, or after a quit() that went through raises RuntimeError and
\* gives nothing to the navigator; in each of these situations the browser is
\* not launched.
C30_GuardedWhenNotLaunched ==
    /\ g_last \in {"new", "launch_false", "quit_ok"} => ~g_is_launched
    /\ g_call.after \in {"new", "launch_false", "quit_ok"}
         => g_call.outcome = "RuntimeError"
    /\ g_call.outcome = "navigator" => g_navigator

\* a step that is a call of launch()
LaunchCalled == g_made'.launch_calls # g_made.launch_calls

\* C37: whenever _is_launched is True, _driver and _navigator are set; and a
\* launch() on a launched browser returns True, leaves the browser launched
\* and creates no launcher and calls no launch_and_attach.
C37_LaunchedHasDriver ==
    /\ [](g_is_launched => g_driver /\ g_navigator)
    /\ [][(g_is_launched /\ LaunchCalled) =>
            /\ g_last' = "launch_true" /\ g_is_launched'
            /\ g_made'.launchers = g_made.launchers
            /\ g_made'.attaches = g_made.attaches
            /\ UNCHANGED <<g_launcher, g_driver, g_navigator>>]_vars

\* launch() was called a second time on a launched browser
C37_Witness ==
    /\ g_is_launched /\ g_last = "launch_true"
    /\ g_made = [launch_calls |-> 2, launchers |-> 1, attaches |-> 1]

\* a guarded method raised after a launch that succeeded and a quit that went
\* through
C30_Witness ==
    /\ g_call.after = "quit_ok" /\ g_call.outcome = "RuntimeError"
    /\ g_driver /\ g_navigator /\ g_last = "quit_ok"

(***************************************************************************)
(* CometNavigator.have_conversation, browser/comet/navigator.py 622-697    *)
(***************************************************************************)
\* largest number of messages in one conversation
MaxMessages == 3

MessageTexts == {"hello", "and then?"}

\* what read_assistant_response returns: a text, or None
ReadOutcomes == {"It is 4.", "None"}

\* wait_between_messages, in seconds
Waits == {-1, 0, 2}

Entry(role, content) == [role |-> role, content |-> content]

\* time.sleep(seconds) raises ValueError for a negative length
SleepRaises(seconds) == seconds < 0

\* a loop that gives up at the first message it could not send
StopOnFailedSend(i, n) == n + 1

\* continue: on to the next message
AfterFailedSend(i, n) == i + 1

\* the user entry, and success = self.send_query_to_sidecar(message,
\* submit=True)
ConvSend ==
    /\ hpc = "turn" /\ h_i <= Len(h_messages)
    /\ \E success \in BOOLEAN :
         /\ h_log' = Append(h_log, [sent |-> success, response |-> "unread"])
         /\ IF success
            THEN /\ conversation' =
                       Append(conversation, Entry("user", h_messages[h_i]))
                 /\ hpc' = "read"
                 /\ UNCHANGED h_i
            ELSE /\ conversation' =
                       conversation \o
                       <<Entry("user", h_messages[h_i]),
                         Entry("assistant", "[ERROR: Failed to send message]")>>
                 /\ h_i' = AfterFailedSend(h_i, Len(h_messages))
                 /\ UNCHANGED hpc
    /\ UNCHANGED <<h_messages, h_read_responses, h_wait, h_raised, allButConv>>

\* if read_responses: wait_for_response_streaming, read_assistant_response
ConvRead ==
    /\ hpc = "read"
    /\ IF h_read_responses
       THEN \E response \in ReadOutcomes :
              /\ h_log' = [h_log EXCEPT ![Len(h_log)].response = response]
              /\ conversation' =
                   Append(conversation,
                          Entry("assistant",
                                IF response # "None" THEN response
                                ELSE "[ERROR: Failed to read response]"))
       ELSE UNCHANGED <<h_log, conversation>>
    /\ hpc' = "wait"
    /\ UNCHANGED <<h_messages, h_read_responses, h_wait, h_i, h_raised,
                   allButConv>>

\* if i < len(messages) - 1: time.sleep(wait_between_messages); an exception
\* goes to the outer handler, which returns the conversation so far
ConvWait ==
    /\ hpc = "wait"
    /\ IF h_i < Len(h_messages) /\ SleepRaises(h_wait)
       THEN /\ h_raised' = TRUE
            /\ hpc' = "done"
            /\ UNCHANGED h_i
       ELSE /\ h_i' = h_i + 1
            /\ hpc' = "turn"
            /\ UNCHANGED h_raised
    /\ UNCHANGED <<h_messages, h_read_responses, h_wait, conversation, h_log,
                   allButConv>>

\* the loop is over: return conversation
ConvReturn ==
    /\ hpc = "turn" /\ h_i > Len(h_messages)
    /\ hpc' = "done"
    /\ UNCHANGED <<h_messages, h_read_responses, h_wait, h_i, conversation,
                   h_log, h_raised, allButConv>>

\* the call have_conversation(messages, read_responses, wait_between_messages)
InitConv ==
    /\ hpc = "turn"
    /\ h_messages \in UNION {[1..n -> MessageTexts] : n \in 0..MaxMessages}
    /\ h_read_responses \in BOOLEAN
    /\ h_wait \in Waits
    /\ h_i = 1 /\ conversation = <<>> /\ h_log = <<>> /\ h_raised = FALSE
    /\ KillIdle /\ ArgsIdle /\ ExecIdle /\ FindIdle /\ GuardIdle /\ MainIdle /\ ReadIdle /\ SendIdle

NextConv == ConvSend \/ ConvRead \/ ConvWait \/ ConvReturn

SpecConv == InitConv /\ [][NextConv]_vars

\* the entries message k must have left in the list
Turn(k) ==
    <<Entry("user", h_messages[k])>> \o
    (IF ~h_log[k].sent
     THEN <<Entry("assistant", "[ERROR: Failed to send message]")>>
     ELSE IF ~h_read_responses THEN <<>>
     ELSE IF h_log[k].response = "None"
     THEN <<Entry("assistant", "[ERROR: Failed to read response]")>>
     ELSE <<Entry("assistant", h_log[k].response)>>)

RECURSIVE Turns(_)
Turns(k) == IF k = 0 THEN <<>> ELSE Turns(k - 1) \o Turn(k)

\* 2n entries, user and assistant in turn
Alternating(n) ==
    /\ Len(conversation) = 2 * n
    /\ \A j \in 1..Len(conversation) :
         conversation[j].role = IF j % 2 = 1 THEN "user" ELSE "assistant"

SendFails ==
    /\ qpc' = "done" /\ q_result' = "False"

Did(what) == q_events' = q_events \o what

\* the three strategies that look for the input element
FindInput ==
    /\ qpc = "find"
    /\ \E found \in {"element", "None", "raise"} :
         CASE found = "element" -> qpc' = "clear" /\ UNCHANGED q_result
           [] found = "None" -> qpc' = "done" /\ q_result' = "False"
           [] OTHER -> SendFails
    /\ UNCHANGED <<q_submit, q_events, allButSend>>

\* "Clearing input field": by JavaScript, or by click, Ctrl+A, Delete when the
\* script raises; a failure of the keyboard clear is only printed
ClearInput ==
    /\ qpc = "clear"
    /\ \E js_ok \in BOOLEAN, done \in 0..3 :
         IF js_ok THEN Did(<<"js_clear">>)
         ELSE Did(SubSeq(<<"click", "select_all", "delete">>, 1, done))
    /\ qpc' = "type"
    /\ UNCHANGED <<q_submit, q_result, allButSend>>

\* "Typing query": by JavaScript, or by send_keys(query) when the script
\* raises; "All typing methods failed" when both raise
TypeQuery ==
    /\ qpc = "type"
    /\ \E how \in {"js", "send_keys", "raise"} :
         CASE how = "js" ->
                /\ Did(<<"js_type">>) /\ qpc' = "submit" /\ UNCHANGED q_result
           [] how = "send_keys" ->
                /\ Did(<<"type">>) /\ qpc' = "submit" /\ UNCHANGED q_result
           [] OTHER -> SendFails /\ UNCHANGED q_events
    /\ UNCHANGED <<q_submit, allButSend>>

\* if submit: ask_input.send_keys(Keys.RETURN)
Submit ==
    /\ qpc = "submit"
    /\ IF q_submit
       THEN \E raised \in BOOLEAN :
              IF raised THEN SendFails /\ UNCHANGED q_events
              ELSE Did(<<"RETURN">>) /\ qpc' = "again" /\ UNCHANGED q_result
       ELSE qpc' = "again" /\ UNCHANGED <<q_events, q_result>>
    /\ UNCHANGED <<q_submit, allButSend>>

\* lines 257-283: click, Ctrl+A, Delete, send_keys(query), and, if submit,
\* send_keys(Keys.RETURN); return True
ClearTypeSubmitAgain ==
    /\ qpc = "again"
    /\ LET all == <<"click", "select_all", "delete", "type">> \o
                  (IF q_submit THEN <<"RETURN">> ELSE <<>>)
       IN  \E done \in 0..Len(all) :
             /\ Did(SubSeq(all, 1, done))
             /\ q_result' = IF done = Len(all) THEN "True" ELSE "False"
    /\ qpc' = "done"
    /\ UNCHANGED <<q_submit, allButSend>>

\* the call send_query(query, submit)
InitSend ==
    /\ qpc = "find" /\ q_submit \in BOOLEAN
    /\ q_events = <<>> /\ q_result = "none"
    /\ KillIdle /\ ArgsIdle /\ ExecIdle /\ FindIdle /\ GuardIdle /\ ConvIdle
    /\ MainIdle /\ ReadIdle

NextSend == FindInput \/ ClearInput \/ TypeQuery \/ Submit \/ ClearTypeSubmitAgain

SpecSend == InitSend /\ [][NextSend]_vars

Times(what) == Cardinality({i \in DOMAIN q_events : q_events[i] \in what})

\* C35: one call of send_query types the query into the input at most once and
\* sends Enter at most once, never with submit = False; a call that returned
\* True has typed the query once and, with submit = True, sent Enter once.
C35_TypedAndSubmittedOnce ==
    /\ Times({"js_type", "type"}) <= 1
    /\ Times({"RETURN"}) <= (IF q_submit THEN 1 ELSE 0)
    /\ q_result = "True" =>
         /\ Times({"js_type", "type"}) = 1
         /\ q_submit => Times({"RETURN"}) = 1

(***************************************************************************)
(* CometNavigator.read_assistant_response with wait_for_completion = True, *)
(* browser/comet/navigator.py 382-454                                      *)
(***************************************************************************)
\* response_selectors, in the order they are tried
response_selectors ==
    <<"div[class*='answer']", "div[class*='response']", "div[class*='message']",
      "div[data-role='assistant']", ".prose", "[class*='markdown']">>

\* presence_of_all_elements_located: the elements the selector matches, shown
\* or not
PresentElements(page, k) ==
    {i \in DOMAIN page : selectors[page[i].selector] = response_selectors[k]}

\* the selector loop: the last element of the first selector whose wait found
\* elements; a wait that raises (it timed out) skips the selector
ReadSelect ==
    /\ rpc = "select"
    /\ \E raised \in SUBSET DOMAIN response_selectors :
         LET found == {k \in DOMAIN response_selectors \ raised :
                          PresentElements(f_page, k) # {}}
         IN  IF found = {}
             THEN \* return None
                  /\ r_element' = 0 /\ rpc' = "done" /\ UNCHANGED fpc
             ELSE LET first == CHOOSE k \in found : \A m \in found : k <= m
                  IN  /\ r_element' = Latest(PresentElements(f_page, first))
                      \* completed = self.wait_for_response_streaming(...)
                      /\ rpc' = "wait" /\ fpc' = "walk"
    /\ UNCHANGED <<r_returned, f_page, f_next, f_raised, f_result, allButFindRead>>

\* wait_for_response_streaming has returned: response_element.text.strip(),
\* which is empty for an element that is not displayed; None is returned for
\* an empty text and when the read raises
ReadText ==
    /\ rpc = "wait" /\ fpc = "done"
    /\ \E text \in {"text", "empty", "raise"} :
         r_returned' = IF text = "text" /\ f_page[r_element].visible
                       THEN r_element ELSE 0
    /\ rpc' = "done"
    /\ UNCHANGED <<r_element, findVars, allButFindRead>>

\* the call read_assistant_response(wait_for_completion=True, max_wait)
InitRead ==
    /\ rpc = "select" /\ r_element = 0 /\ r_returned = 0
    /\ fpc = "idle"
    /\ \E n \in 0..MaxElements : f_page \in [1..n -> Elements]
    /\ f_next = 1 /\ f_raised = {} /\ f_result = 0
    /\ KillIdle /\ ArgsIdle /\ ExecIdle /\ GuardIdle /\ ConvIdle /\ SendIdle
    /\ MainIdle

NextRead == ReadSelect \/ TrySelector \/ FoundNothing \/ ReadText

SpecRead == InitRead /\ [][NextRead]_vars

\* C36: when read_assistant_response returns a text after
\* wait_for_response_streaming monitored an element, the text is that of the
\* monitored element.
C36_SameElement ==
    (rpc = "done" /\ r_returned # 0 /\ f_result # 0) => r_returned = f_result

====
